---- MODULE Spec2Model ----
(***************************************************************************)
(* Composition-and-export pipeline of the screen recorder's editor:        *)
(*   - clipUtils.ts      : source-time / output-time remapping, schedule   *)
(*   - videoExporter.ts  : VideoExporter.export / cancel / cleanup         *)
(*                                                                         *)
(* The specifications share the module's variables:                        *)
(*   Spec         the exporter (one VideoExporter instance, its encoder)   *)
(*   SpecClip     the pure remapping functions applied to bounded inputs   *)
(*   SpecSched    generateClipFrameTimes run one loop iteration per step   *)
(*   SpecCam      the camera animation of the frame renderer               *)
(*   SpecClick    click detection of the exporter and of the playback      *)
(*   SpecPtr      pointer normalization of the exporter and the playback   *)
(*   SpecTimeline adding, dragging and resizing regions on the timeline    *)
(*   SpecInterp   pointer interpolation of the exporter and the playback   *)
(*   SpecPlay     the playback loop and the events of the video element    *)
(*   SpecTrack    mouse tracking of the main process                       *)
(*   SpecStore    recordings on disk and what the editor loads             *)
(***************************************************************************)
EXTENDS Integers, Sequences, FiniteSets, TLC

VARIABLES
  \* ---- VideoExporter fields and the position of export() ----
  pc, config, decoder, renderer, encoder, muxer, cancelled, encodedChunks,
  encodeQueue, videoDescription, frameTimes, totalFrames, frameIndex,
  currentTime, res, encPending, timers, progress, result,
  \* ---- history of the current export (observers, never read by the code) ----
  hist,
  \* ---- clipUtils applied to inputs (SpecClip) ----
  cuPc, cuClips, cuSrc, cuOut, cuBack, cuFound,
  \* ---- generateClipFrameTimes, one iteration per step (SpecSched) ----
  gsPc, gsClips, gsRate, gsSorted, gsClipIdx, gsCurrentMs, gsFrameTimes,
  \* ---- FrameRenderer camera animation, one tick per rendered frame (SpecCam) ----
  camDepth, camRate, camTicks, camScale,
  \* ---- click detection of the exporter and of the playback cursor (SpecClick) ----
  ckEvents, ckEffect, lastClickTime, ckExLog, lastCheckedTime, ckPbLog,
  \* ---- pointer normalization of the exporter and of the playback cursor (SpecPtr) ----
  ptData, ptBounds, ptDevicePixelRatio, ptVideo, normalizedTrackingData, trackingData,
  ptDone,
  \* ---- timeline tracks of the editor (SpecTimeline) ----
  tlTotalMs, zoomRegions, clipRegions, nextZoomIdRef, nextClipIdRef, tlOps,
  \* ---- pointer interpolation of the exporter and of the playback cursor (SpecInterp) ----
  ipData, ipTimeMs, ipExport, ipPlayback, ipDone,
  \* ---- playback: the video element, the refs of the handlers, the frames (SpecPlay) ----
  plClips, vCurrentTime, vPaused, vSeeking, mediaEvents, isSeekingRef, isPlayingRef, allowPlaybackRef, isSkippingGap, timeUpdateAnimationRef, rafScheduled, rafCount, plUserOps, plEmitted, plLoopPausedAt,
  \* ---- mouse tracking of the main process (SpecTrack) ----
  isMouseTrackingActive, isHookStarted, hookRunning, listenerSets, mouseEventData, recordingStartTime, lastMoveTimestamp, initialMousePosition, mtNow, nativeEvents, mtCalls,
  \* ---- recordings on disk and what the editor loaded (SpecStore) ----
  recordingsDir, dateNow, videoPath, mouseTrackingData, editorLoads

expVars == <<pc, config, decoder, renderer, encoder, muxer, cancelled,
             encodedChunks, encodeQueue, videoDescription, frameTimes,
             totalFrames, frameIndex, currentTime, res, encPending, timers,
             progress, result, hist>>
cuVars == <<cuPc, cuClips, cuSrc, cuOut, cuBack, cuFound>>
gsVars == <<gsPc, gsClips, gsRate, gsSorted, gsClipIdx, gsCurrentMs, gsFrameTimes>>
camVars == <<camDepth, camRate, camTicks, camScale>>
ckVars == <<ckEvents, ckEffect, lastClickTime, ckExLog, lastCheckedTime, ckPbLog>>
ptVars == <<ptData, ptBounds, ptDevicePixelRatio, ptVideo, normalizedTrackingData,
            trackingData, ptDone>>
tlVars == <<tlTotalMs, zoomRegions, clipRegions, nextZoomIdRef, nextClipIdRef, tlOps>>
ipVars == <<ipData, ipTimeMs, ipExport, ipPlayback, ipDone>>
plVars == <<plClips, vCurrentTime, vPaused, vSeeking, mediaEvents, isSeekingRef, isPlayingRef, allowPlaybackRef, isSkippingGap, timeUpdateAnimationRef, rafScheduled, rafCount, plUserOps, plEmitted, plLoopPausedAt>>
mtVars == <<isMouseTrackingActive, isHookStarted, hookRunning, listenerSets, mouseEventData, recordingStartTime, lastMoveTimestamp, initialMousePosition, mtNow, nativeEvents, mtCalls>>
rsVars == <<recordingsDir, dateNow, videoPath, mouseTrackingData, editorLoads>>
vars == <<expVars, cuVars, gsVars, camVars, ckVars, ptVars, tlVars, ipVars, plVars, mtVars, rsVars>>

\* what the actions of one specification leave alone
exceptExp == <<cuVars, gsVars, camVars, ckVars, ptVars, tlVars, ipVars, plVars, mtVars, rsVars>>
exceptCu == <<expVars, gsVars, camVars, ckVars, ptVars, tlVars, ipVars, plVars, mtVars, rsVars>>
exceptGs == <<expVars, cuVars, camVars, ckVars, ptVars, tlVars, ipVars, plVars, mtVars, rsVars>>
exceptCam == <<expVars, cuVars, gsVars, ckVars, ptVars, tlVars, ipVars, plVars, mtVars, rsVars>>
exceptCk == <<expVars, cuVars, gsVars, camVars, ptVars, tlVars, ipVars, plVars, mtVars, rsVars>>
exceptPt == <<expVars, cuVars, gsVars, camVars, ckVars, tlVars, ipVars, plVars, mtVars, rsVars>>
exceptTl == <<expVars, cuVars, gsVars, camVars, ckVars, ptVars, ipVars, plVars, mtVars, rsVars>>
exceptIp == <<expVars, cuVars, gsVars, camVars, ckVars, ptVars, tlVars, plVars, mtVars, rsVars>>
exceptPl == <<expVars, cuVars, gsVars, camVars, ckVars, ptVars, tlVars, ipVars, mtVars, rsVars>>
exceptMt == <<expVars, cuVars, gsVars, camVars, ckVars, ptVars, tlVars, ipVars, plVars, rsVars>>
exceptRs == <<expVars, cuVars, gsVars, camVars, ckVars, ptVars, tlVars, ipVars, plVars, mtVars>>

NULL == "null"
\* the null of a time-valued result (times are never negative)
NoTime == 0 - 1

(***************************************************************************)
(* Bounds of the model.                                                    *)
(***************************************************************************)
\* largest clip boundary (ms) of the remapping inputs of SpecClip
MaxMs == 6
\* most clips in a clip list of SpecClip
MaxClips == 3
\* longest source, in eighths of a second, the exporter is given
MaxDurationEighths == 17
\* export() calls made on the one exporter
MaxExports == 2
\* rendered frames the camera animation is ticked for
MaxCamTicks == 125
\* calls of click detection made on each of the two cursor renderers
MaxClickCalls == 3
\* most pointer events in a recorded session handed to the normalizers
MaxPtrEvents == 2
\* most events in the tracking data a position is interpolated from
MaxInterpEvents == 3
\* calls of start, stop and cleanup of the mouse tracking in one run
MaxTrackCalls == 4
\* native pointer events delivered by the hook in one run
MaxNativeEvents == 3
\* recordings made, and editor windows opened, in one run
MaxRecordings == 5
\* animation frames requested during one playback
MaxFrames == 4
\* play, pause and seek commands of the user during one playback
MaxUserOps == 3
\* operations on the timeline in one run
MaxTimelineOps == 3

(***************************************************************************)
(* IEEE-754 binary64 arithmetic on the non-negative millisecond values     *)
(* the frame schedule computes.  A double d with 0 <= d < 2^15 that is a   *)
(* multiple of 2^-48 is the triple <<hi, mid, lo>> of 21-bit limbs with    *)
(* d = (hi * 2^42 + mid * 2^21 + lo) * 2^-48.  Every double in             *)
(* [2^-5, 2^15) with 53 significant bits is such a multiple.               *)
(***************************************************************************)
LimbBase == 2^21
FracUnit == 2^6

RECURSIVE BitLen(_)
BitLen(x) == IF x = 0 THEN 0 ELSE 1 + BitLen(x \div 2)

RECURSIVE Pow2(_)
Pow2(n) == IF n = 0 THEN 1 ELSE 2 * Pow2(n - 1)

\* the double holding the integer k (exact)
FromInt(k) == <<k * FracUnit, 0, 0>>

FLess(a, b) ==
  \/ a[1] < b[1]
  \/ a[1] = b[1] /\ a[2] < b[2]
  \/ a[1] = b[1] /\ a[2] = b[2] /\ a[3] < b[3]

\* carries propagated so that mid and lo are limbs again
Normalize(n) ==
  LET lo  == n[3] % LimbBase
      c1  == n[3] \div LimbBase
      mid == (n[2] + c1) % LimbBase
      c2  == (n[2] + c1) \div LimbBase
  IN  <<n[1] + c2, mid, lo>>

NumBits(n) ==
  IF n[1] > 0 THEN 42 + BitLen(n[1])
  ELSE IF n[2] > 0 THEN 21 + BitLen(n[2])
  ELSE BitLen(n[3])

\* round-to-nearest, ties-to-even, of the exact value n + (sticky ? epsilon : 0)
\* to 53 significant bits
Round53(n, sticky) ==
  LET s == NumBits(n) - 53
  IN  IF s <= 0
      THEN n
      ELSE LET q    == Pow2(s)
               r    == n[3] % q
               base == n[3] - r
               odd  == (n[3] \div q) % 2 = 1
               up   == \/ 2 * r > q
                       \/ 2 * r = q /\ (sticky \/ odd)
           IN  IF up THEN Normalize(<<n[1], n[2], base + q>>)
                     ELSE <<n[1], n[2], base>>

\* a + b in binary64
FAdd(a, b) == Round53(Normalize(<<a[1] + b[1], a[2] + b[2], a[3] + b[3]>>), FALSE)

\* k * a in binary64 for an integer 0 <= k <= 1000 (the top limb is not bounded
\* by LimbBase, so microsecond timestamps below 2^24 fit as well)
FMulInt(k, a) == Round53(Normalize(<<k * a[1], k * a[2], k * a[3]>>), FALSE)

\* a - b for a >= b, exact when the result needs no more than 53 bits
FSubAbs(a, b) ==
  LET x  == IF FLess(a, b) THEN b ELSE a
      y  == IF FLess(a, b) THEN a ELSE b
      lo == x[3] - y[3]
      b1 == IF lo < 0 THEN 1 ELSE 0
      md == x[2] - y[2] - b1
      b2 == IF md < 0 THEN 1 ELSE 0
  IN  Round53(<<x[1] - y[1] - b2, md + b2 * LimbBase, lo + b1 * LimbBase>>, FALSE)

\* k / d in binary64 for integers 0 <= k, 0 < d <= 240 with k / d >= 8
FDivInt(k, d) ==
  LET n1 == k * FracUnit
      q1 == n1 \div d
      r1 == n1 % d
      q2 == (r1 * LimbBase) \div d
      r2 == (r1 * LimbBase) % d
      q3 == (r2 * LimbBase) \div d
      r3 == (r2 * LimbBase) % d
      fl == <<q1, q2, q3>>
      s  == NumBits(fl) - 53
  IN  IF s > 0
      THEN Round53(fl, r3 > 0)
      ELSE IF 2 * r3 > d \/ (2 * r3 = d /\ q3 % 2 = 1)
           THEN Normalize(<<q1, q2, q3 + 1>>)
           ELSE fl

(***************************************************************************)
(* IEEE-754 binary64 arithmetic on the camera's scale values.  A number is *)
(* a natural in units of 2^-110, held as BigLen digits of 11 bits, least   *)
(* significant first; every double in [2^-57, 2^11) is such a number.      *)
(***************************************************************************)
BigBase == 2^11
BigLen == 10 + 1
BigDigits == 1..BigLen

RECURSIVE CarryFrom(_, _, _)
CarryFrom(cols, i, c) ==
  IF i > BigLen THEN <<>>
  ELSE <<(cols[i] + c) % BigBase>> \o CarryFrom(cols, i + 1, (cols[i] + c) \div BigBase)

\* the digits of the number whose columns are cols
BigNorm(cols) == CarryFrom(cols, 1, 0)

BigAdd(a, b) == BigNorm([i \in BigDigits |-> a[i] + b[i]])

RECURSIVE BorrowFrom(_, _, _, _)
BorrowFrom(a, b, i, br) ==
  IF i > BigLen THEN <<>>
  ELSE LET d == a[i] - b[i] - br
       IN  <<IF d < 0 THEN d + BigBase ELSE d>>
             \o BorrowFrom(a, b, i + 1, IF d < 0 THEN 1 ELSE 0)

\* a - b for a >= b
BigSub(a, b) == BorrowFrom(a, b, 1, 0)

BigLess(a, b) ==
  \E i \in BigDigits : a[i] < b[i] /\ \A j \in BigDigits : j > i => a[j] = b[j]

RECURSIVE ColSum(_, _, _, _)
ColSum(a, b, k, i) ==
  IF i > k THEN 0 ELSE a[i] * b[k - i + 1] + ColSum(a, b, k, i + 1)

\* a * b for a product below BigBase^BigLen
BigMul(a, b) == BigNorm([k \in BigDigits |-> ColSum(a, b, k, 1)])

BigBits(a) ==
  IF \A i \in BigDigits : a[i] = 0 THEN 0
  ELSE LET t == CHOOSE i \in BigDigits : a[i] # 0 /\ \A j \in BigDigits : j > i => a[j] = 0
       IN  (t - 1) * 11 + BitLen(a[t])

BigBit(a, k) == (a[k \div 11 + 1] \div Pow2(k % 11)) % 2

\* the bits below bit k are all zero
BigLowZero(a, k) ==
  /\ \A i \in BigDigits : i <= k \div 11 => a[i] = 0
  /\ a[k \div 11 + 1] % Pow2(k % 11) = 0

BigClearLow(a, k) ==
  [i \in BigDigits |->
     IF i <= k \div 11 THEN 0
     ELSE IF i = k \div 11 + 1 THEN a[i] - (a[i] % Pow2(k % 11))
     ELSE a[i]]

BigPow2(k) == [i \in BigDigits |-> IF i = k \div 11 + 1 THEN Pow2(k % 11) ELSE 0]

\* round-to-nearest, ties-to-even, of a + (sticky ? epsilon : 0) to 53 bits
BigRound53(a, sticky) ==
  LET s == BigBits(a) - 53
  IN  IF s <= 0 THEN a
      ELSE LET up == /\ BigBit(a, s - 1) = 1
                     /\ ~BigLowZero(a, s - 1) \/ sticky \/ BigBit(a, s) = 1
           IN  IF up THEN BigAdd(BigClearLow(a, s), BigPow2(s)) ELSE BigClearLow(a, s)

\* a / 2^55 for a multiple of 2^55
ShiftDown5(a) == [i \in BigDigits |-> IF i + 5 <= BigLen THEN a[i + 5] ELSE 0]

RECURSIVE RemAt(_, _, _)
RemAt(a, d, i) == IF i > BigLen THEN 0 ELSE (RemAt(a, d, i + 1) * BigBase + a[i]) % d

\* the double nearest to n / d, for integers 0 < n < 2^11, 0 < d <= 10000:
\* the value of a decimal literal
DFromRatio(n, d) ==
  LET a == [i \in BigDigits |-> IF i = BigLen THEN n ELSE 0]
      q == [i \in BigDigits |-> (RemAt(a, d, i + 1) * BigBase + a[i]) \div d]
  IN  BigRound53(q, RemAt(a, d, 1) # 0)

DAdd(a, b) == BigRound53(BigAdd(a, b), FALSE)

\* |a - b| in binary64
DSubAbs(a, b) == BigRound53(IF BigLess(a, b) THEN BigSub(b, a) ELSE BigSub(a, b), FALSE)

\* a * b in binary64, for a and b multiples of 2^-55
DMul(a, b) == BigRound53(BigMul(ShiftDown5(a), ShiftDown5(b)), FALSE)

(***************************************************************************)
(* clipUtils.ts                                                            *)
(***************************************************************************)
Clip(s, e) == [startMs |-> s, endMs |-> e]

RECURSIVE InsertClip(_, _)
InsertClip(sorted, c) ==
  IF sorted = <<>> THEN <<c>>
  ELSE IF sorted[Len(sorted)].startMs <= c.startMs
       THEN Append(sorted, c)
       ELSE Append(InsertClip(SubSeq(sorted, 1, Len(sorted) - 1), c), sorted[Len(sorted)])

RECURSIVE SortFrom(_, _, _)
SortFrom(clips, i, acc) ==
  IF i > Len(clips) THEN acc ELSE SortFrom(clips, i + 1, InsertClip(acc, clips[i]))

\* [...clips].sort((a, b) => a.startMs - b.startMs): a stable sort of a copy
sortClips(clips) == SortFrom(clips, 1, <<>>)

\* the remapping with the clip's output range closed at its end
RECURSIVE OutToSrcFromClosed(_, _, _, _)
OutToSrcFromClosed(outputTimeMs, sorted, i, accumulatedOutput) ==
  IF i > Len(sorted)
  THEN sorted[Len(sorted)].endMs
  ELSE LET clip == sorted[i]
           clipDuration == clip.endMs - clip.startMs
       IN  IF outputTimeMs <= accumulatedOutput + clipDuration
           THEN clip.startMs + (outputTimeMs - accumulatedOutput)
           ELSE OutToSrcFromClosed(outputTimeMs, sorted, i + 1, accumulatedOutput + clipDuration)

RECURSIVE OutToSrcFrom(_, _, _, _)
OutToSrcFrom(outputTimeMs, sorted, i, accumulatedOutput) ==
  IF i > Len(sorted)
  THEN sorted[Len(sorted)].endMs
  ELSE LET clip == sorted[i]
           clipDuration == clip.endMs - clip.startMs
       IN  IF outputTimeMs < accumulatedOutput + clipDuration
           THEN clip.startMs + (outputTimeMs - accumulatedOutput)
           ELSE OutToSrcFrom(outputTimeMs, sorted, i + 1, accumulatedOutput + clipDuration)

outputTimeToSourceTime(outputTimeMs, clips) ==
  IF Len(clips) = 0 THEN outputTimeMs
  ELSE OutToSrcFrom(outputTimeMs, sortClips(clips), 1, 0)

RECURSIVE SrcToOutFrom(_, _, _, _)
SrcToOutFrom(sourceTimeMs, sorted, i, accumulatedOutput) ==
  IF i > Len(sorted)
  THEN NoTime
  ELSE LET clip == sorted[i]
       IN  IF sourceTimeMs >= clip.startMs /\ sourceTimeMs <= clip.endMs
           THEN accumulatedOutput + (sourceTimeMs - clip.startMs)
           ELSE IF sourceTimeMs < clip.startMs
                THEN NoTime
                ELSE SrcToOutFrom(sourceTimeMs, sorted, i + 1,
                                  accumulatedOutput + (clip.endMs - clip.startMs))

sourceTimeToOutputTime(sourceTimeMs, clips) ==
  IF Len(clips) = 0 THEN sourceTimeMs
  ELSE SrcToOutFrom(sourceTimeMs, sortClips(clips), 1, 0)

\* the null of a clip-valued result
NoClip == [startMs |-> NoTime, endMs |-> NoTime]

\* clips.find(...) || null: the first match in the order of the list given
findClipAtSourceTime(sourceTimeMs, clips) ==
  LET hits == {i \in 1..Len(clips) :
                 sourceTimeMs >= clips[i].startMs /\ sourceTimeMs <= clips[i].endMs}
  IN  IF hits = {} THEN NoClip
      ELSE clips[CHOOSE i \in hits : \A j \in hits : i <= j]

isInGap(sourceTimeMs, clips) == findClipAtSourceTime(sourceTimeMs, clips) = NoClip

\* the inner while loop of generateClipFrameTimes for one clip: the samples
\* pushed from currentMs on, appended to acc (kept in milliseconds; the code
\* stores currentMs / 1000)
RECURSIVE ClipSamples(_, _, _, _)
ClipSamples(currentMs, endMs, frameIntervalMs, acc) ==
  IF FLess(currentMs, endMs)
  THEN ClipSamples(FAdd(currentMs, frameIntervalMs), endMs, frameIntervalMs,
                   Append(acc, currentMs))
  ELSE acc

RECURSIVE FrameTimesFrom(_, _, _, _)
FrameTimesFrom(sorted, i, frameIntervalMs, acc) ==
  IF i > Len(sorted) THEN acc
  ELSE FrameTimesFrom(sorted, i + 1, frameIntervalMs,
                      ClipSamples(FromInt(sorted[i].startMs), FromInt(sorted[i].endMs),
                                  frameIntervalMs, acc))

generateClipFrameTimes(clips, frameRate) ==
  IF Len(clips) = 0 THEN <<>>
  ELSE FrameTimesFrom(sortClips(clips), 1, FDivInt(1000, frameRate), <<>>)

(***************************************************************************)
(* SpecClip: the remapping functions applied to bounded inputs.            *)
(***************************************************************************)
ClipSet ==
  {c \in {Clip(s, e) : s \in 0..MaxMs, e \in 0..MaxMs} : c.startMs < c.endMs}

NonOverlapping(clips) ==
  \A i \in 1..Len(clips) : \A j \in 1..Len(clips) :
    i # j => (clips[i].endMs <= clips[j].startMs \/ clips[j].endMs <= clips[i].startMs)

\* clip lists the timeline hands over: startMs < endMs, pairwise non-overlapping
\* (abutting allowed), in any order
ClipLists ==
  UNION {{cl \in [1..n -> ClipSet] : NonOverlapping(cl)} : n \in 0..MaxClips}

CuIdle ==
  /\ cuPc = "idle" /\ cuClips = <<>> /\ cuSrc = 0 /\ cuOut = NoTime /\ cuBack = NoTime
  /\ cuFound = NoClip

CuInit ==
  /\ cuPc = "input"
  /\ cuClips \in ClipLists
  /\ cuSrc \in 0..(MaxMs + 1)
  /\ cuOut = NoTime
  /\ cuBack = NoTime
  /\ cuFound = NoClip

CuSourceToOutput ==
  /\ cuPc = "input"
  /\ UNCHANGED exceptCu
  /\ cuOut' = sourceTimeToOutputTime(cuSrc, cuClips)
  /\ cuPc' = "mapped"
  /\ UNCHANGED <<cuClips, cuSrc, cuBack, cuFound>>

CuOutputToSource ==
  /\ cuPc = "mapped"
  /\ UNCHANGED exceptCu
  /\ cuOut # NoTime
  /\ cuBack' = outputTimeToSourceTime(cuOut, cuClips)
  /\ cuPc' = "back"
  /\ UNCHANGED <<cuClips, cuSrc, cuOut, cuFound>>

\* findClipAtSourceTime applied to the list as given
CuFindClip ==
  /\ cuPc = "input"
  /\ UNCHANGED exceptCu
  /\ cuFound' = findClipAtSourceTime(cuSrc, cuClips)
  /\ cuPc' = "found"
  /\ UNCHANGED <<cuClips, cuSrc, cuOut, cuBack>>


(***************************************************************************)
(* SpecSched: generateClipFrameTimes, one loop iteration per step.         *)
(***************************************************************************)
ClaimClips == <<Clip(0, 3000), Clip(5000, 8000)>>

SchedClipLists ==
  { ClaimClips,
    <<Clip(5000, 8000), Clip(0, 3000)>>,
    <<Clip(0, 1000)>>,
    <<Clip(0, 10)>>,
    <<Clip(200, 300), Clip(0, 100)>>,
    <<>> }

FrameRates == {24, 30, 60}

GsIdle ==
  /\ gsPc = "idle" /\ gsClips = <<>> /\ gsRate = 30 /\ gsSorted = <<>>
  /\ gsClipIdx = 0 /\ gsCurrentMs = FromInt(0) /\ gsFrameTimes = <<>>

GsInit ==
  /\ gsPc = "start"
  /\ gsClips \in SchedClipLists
  /\ gsRate \in FrameRates
  /\ gsSorted = <<>>
  /\ gsClipIdx = 0
  /\ gsCurrentMs = FromInt(0)
  /\ gsFrameTimes = <<>>

\* lines 120-127: the early return, the sort, and entry into the first clip
GsStart ==
  /\ gsPc = "start"
  /\ UNCHANGED exceptGs
  /\ IF Len(gsClips) = 0
     THEN /\ gsPc' = "done"
          /\ UNCHANGED <<gsSorted, gsClipIdx, gsCurrentMs>>
     ELSE /\ gsSorted' = sortClips(gsClips)
          /\ gsClipIdx' = 1
          /\ gsCurrentMs' = FromInt(sortClips(gsClips)[1].startMs)
          /\ gsPc' = "loop"
  /\ UNCHANGED <<gsClips, gsRate, gsFrameTimes>>

\* GsPush with the step taken before the push
GsPushAfterStep ==
  /\ gsPc = "loop"
  /\ UNCHANGED exceptGs
  /\ FLess(gsCurrentMs, FromInt(gsSorted[gsClipIdx].endMs))
  /\ gsFrameTimes' = Append(gsFrameTimes, FAdd(gsCurrentMs, FDivInt(1000, gsRate)))
  /\ gsCurrentMs' = FAdd(gsCurrentMs, FDivInt(1000, gsRate))
  /\ UNCHANGED <<gsPc, gsClips, gsRate, gsSorted, gsClipIdx>>

\* lines 128-131: one iteration of the while loop
GsPush ==
  /\ gsPc = "loop"
  /\ UNCHANGED exceptGs
  /\ FLess(gsCurrentMs, FromInt(gsSorted[gsClipIdx].endMs))
  /\ gsFrameTimes' = Append(gsFrameTimes, gsCurrentMs)
  /\ gsCurrentMs' = FAdd(gsCurrentMs, FDivInt(1000, gsRate))
  /\ UNCHANGED <<gsPc, gsClips, gsRate, gsSorted, gsClipIdx>>

\* lines 126-127, 134: the while loop ends; next clip of the for loop or return
GsNextClip ==
  /\ gsPc = "loop"
  /\ UNCHANGED exceptGs
  /\ ~FLess(gsCurrentMs, FromInt(gsSorted[gsClipIdx].endMs))
  /\ IF gsClipIdx = Len(gsSorted)
     THEN /\ gsPc' = "done"
          /\ UNCHANGED <<gsClipIdx, gsCurrentMs>>
     ELSE /\ gsClipIdx' = gsClipIdx + 1
          /\ gsCurrentMs' = FromInt(gsSorted[gsClipIdx + 1].startMs)
          /\ UNCHANGED gsPc
  /\ UNCHANGED <<gsClips, gsRate, gsSorted, gsFrameTimes>>


(***************************************************************************)
(* frameRenderer.ts: FrameRenderer.updateAnimationState, the scale of the  *)
(* camera.  SpecCam ticks it once per rendered frame with one zoom region  *)
(* dominant at strength 1 (findDominantRegion is the caller's input), from *)
(* the identity state the constructor sets.  The focus coordinates follow  *)
(* the same rule on their own fields and do not enter the scale.           *)
(***************************************************************************)
ZoomDepths == 1..5

\* types.ts, ZOOM_DEPTH_SCALES
ZOOM_DEPTH_SCALES ==
  [d \in ZoomDepths |->
     CASE d = 1 -> DFromRatio(125, 100)
       [] d = 2 -> DFromRatio(15, 10)
       [] d = 3 -> DFromRatio(18, 10)
       [] d = 4 -> DFromRatio(22, 10)
       [] d = 5 -> DFromRatio(35, 10)]

SMOOTHING_FACTOR == DFromRatio(18, 100)
MIN_DELTA == DFromRatio(1, 10000)
DOne == DFromRatio(1, 1)

\* lines 402-408: 1 + (zoomScale - 1) * strength for a region of the given depth
targetScaleFactor(depth, strength) ==
  DAdd(DOne, DMul(DSubAbs(ZOOM_DEPTH_SCALES[depth], DOne), strength))

\* lines 420-433: the smoothed scale after one tick
nextScale(scale, target) ==
  LET delta == DSubAbs(target, scale)
      step  == DMul(delta, SMOOTHING_FACTOR)
  IN  IF BigLess(MIN_DELTA, delta)
      THEN IF BigLess(scale, target) THEN DAdd(scale, step) ELSE DSubAbs(scale, step)
      ELSE target

CamIdle ==
  /\ camDepth = 1 /\ camRate = 30 /\ camTicks = 0 /\ camScale = DOne

CamInit ==
  /\ camDepth \in ZoomDepths
  /\ camRate \in FrameRates
  /\ camTicks = 0
  /\ camScale = DOne

\* renderFrame, lines 296-302: one tick of updateAnimationState
updateAnimationState ==
  /\ camTicks < MaxCamTicks
  /\ UNCHANGED exceptCam
  /\ camScale' = nextScale(camScale, targetScaleFactor(camDepth, DOne))
  /\ camTicks' = camTicks + 1
  /\ UNCHANGED <<camDepth, camRate>>

(***************************************************************************)
(* Click detection: FrameRenderer.checkClickEvents (export, called once    *)
(* per rendered frame from updateCursorForFrame) and                       *)
(* CursorRenderer.checkForClicks (playback, called from updateForTime).    *)
(* Both read the normalized tracking data, whose first timestamp is 0.     *)
(* Times are whole milliseconds, never decreasing from call to call (and   *)
(* increasing from frame to frame of an export); the logs record for each  *)
(* call its time and the events it acted on.                               *)
(***************************************************************************)
CLICK_EFFECT_DURATION == 400

Ev(type, t) == [type |-> type, timestamp |-> t]

\* recorded sessions: a first event at 0, then none or one more
ClickEventLists ==
  LET firsts  == {Ev(ty, 0) : ty \in {"move", "down"}}
      seconds == {Ev(ty, t) : ty \in {"move", "down", "up", "click"}, t \in {100, 350}}
  IN  {<<e>> : e \in firsts} \cup {<<e, f>> : e \in firsts, f \in seconds}

\* time between two calls: a repeated frame, a frame step, a jump forward
ClickSteps == {0, 100, 50100}

IsClick(e) == e.type = "click" \/ e.type = "down"

\* the down/click events with a timestamp in (from, to]
ClicksIn(events, from, to) ==
  {i \in 1..Len(events) :
     IsClick(events[i]) /\ events[i].timestamp > from /\ events[i].timestamp <= to}

LastCall(log) == IF Len(log) = 0 THEN 0 ELSE log[Len(log)].time

CkIdle ==
  /\ ckEvents = <<>> /\ ckEffect = "none"
  /\ lastClickTime = 0 - 1 /\ ckExLog = <<>>
  /\ lastCheckedTime = 0 - 1 /\ ckPbLog = <<>>

CkInit ==
  /\ ckEvents \in ClickEventLists
  /\ ckEffect \in {"none", "ripple"}
  /\ lastClickTime = 0 - 1 /\ ckExLog = <<>>
  /\ lastCheckedTime = 0 - 1 /\ ckPbLog = <<>>

\* frameRenderer.ts lines 763-781, with drawClickEffect lines 783-790: an
\* effect is drawn for an event of the window unless its elapsed time has
\* reached the effect duration
checkClickEvents ==
  /\ Len(ckExLog) < MaxClickCalls
  /\ UNCHANGED exceptCk
  /\ \E d \in {x \in ClickSteps : Len(ckExLog) > 0 => x > 0} :
       LET timeMs == LastCall(ckExLog) + d
           found  == ClicksIn(ckEvents, lastClickTime, timeMs)
           drawn  == {i \in found : timeMs - ckEvents[i].timestamp < CLICK_EFFECT_DURATION}
       IN  IF ckEffect = "none"
           THEN /\ ckExLog' = Append(ckExLog, [time |-> timeMs, reported |-> {}, drawn |-> {}])
                /\ UNCHANGED lastClickTime
           ELSE /\ ckExLog' = Append(ckExLog, [time |-> timeMs, reported |-> found, drawn |-> drawn])
                /\ lastClickTime' = timeMs
  /\ UNCHANGED <<ckEvents, ckEffect, lastCheckedTime, ckPbLog>>

\* part_003 lines 493-529 (triggerClickEffect, lines 401-402, starts an effect
\* for each event reported unless the click effect is 'none')
checkForClicks ==
  /\ Len(ckPbLog) < MaxClickCalls
  /\ UNCHANGED exceptCk
  /\ \E d \in ClickSteps :
       LET currentTimeMs == LastCall(ckPbLog) + d
           skip == \/ lastCheckedTime < 0
                   \/ currentTimeMs <= lastCheckedTime
                   \/ currentTimeMs - lastCheckedTime > 50000
           found == IF skip THEN {} ELSE ClicksIn(ckEvents, lastCheckedTime, currentTimeMs)
       IN  /\ ckPbLog' = Append(ckPbLog,
                                [time |-> currentTimeMs, reported |-> found,
                                 drawn |-> IF ckEffect = "none" THEN {} ELSE found])
           /\ lastCheckedTime' = currentTimeMs
  /\ UNCHANGED <<ckEvents, ckEffect, lastClickTime, ckExLog>>

(***************************************************************************)
(* Pointer normalization: FrameRenderer.normalizeTrackingData (export) and *)
(* CursorRenderer.setTrackingData (playback), applied to the same session. *)
(* Coordinates are numbers in units of 1/64; the inputs are whole pixels   *)
(* and sizes and ratios that are powers of two, so that every product and  *)
(* quotient below is a multiple of 1/64 and binary64 computes it exactly.  *)
(***************************************************************************)
PxUnit == 2^6

Px(n) == n * PxUnit
\* the value of a coordinate that is Infinity or NaN
NotFinite == 0 - 2^30
\* a * b and a / b of binary64: a division by zero gives Infinity or NaN, and
\* every product with one of those is Infinity or NaN again
PxMul(a, b) == IF a = NotFinite \/ b = NotFinite THEN NotFinite ELSE (a * b) \div PxUnit
PxDiv(a, b) ==
  IF a = NotFinite \/ b = NotFinite \/ b = 0 THEN NotFinite ELSE (a * PxUnit) \div b
PxMax(a, b) == IF a > b THEN a ELSE b

PtrEvent(t, x, y) == [timestamp |-> t, x |-> x, y |-> y]

\* sessions as recorded: timestamps in ms since recording started, positions
\* in logical screen pixels
PtrSessions ==
  UNION {{ [i \in 1..n |-> PtrEvent(5000 + 100 * (i - 1), xs[i], ys[i])] :
             xs \in [1..n -> {0, 4, 8}], ys \in [1..n -> {0, 4}] } : n \in 0..MaxPtrEvents}

\* no source bounds (null), unusable ones (width 0), a display or a window
NoBounds == [x |-> 0, y |-> 0, width |-> 0, height |-> 0, isWindowRecording |-> FALSE]

PtrBounds ==
  {NoBounds,
   [x |-> 4, y |-> 0, width |-> 0, height |-> 8, isWindowRecording |-> TRUE],
   [x |-> 0, y |-> 0, width |-> 8, height |-> 0, isWindowRecording |-> FALSE],
   [x |-> 0, y |-> 0, width |-> 32, height |-> 16, isWindowRecording |-> FALSE]} \cup
  {[x |-> x, y |-> 0, width |-> w, height |-> 8, isWindowRecording |-> win] :
     x \in {0, 4}, w \in {8, 16}, win \in BOOLEAN}

\* window.devicePixelRatio || 2
DprOf(devicePixelRatio) == IF devicePixelRatio = 0 THEN 2 ELSE devicePixelRatio

HasBounds(b) == b.width > 0 /\ b.height > 0

MinOf(S) == CHOOSE m \in S : \A v \in S : m <= v
MaxOf(S) == CHOOSE m \in S : \A v \in S : v <= m
XsOf(data) == {data[i].x : i \in 1..Len(data)}
YsOf(data) == {data[i].y : i \in 1..Len(data)}

\* exportNormalize dividing by the pointer range itself
exportNormalizeByRange(data, b, devicePixelRatio, video) ==
  IF Len(data) = 0 THEN <<>>
  ELSE
    LET firstTimestamp == data[1].timestamp
        dpr == Px(DprOf(devicePixelRatio))
    IN  IF HasBounds(b)
        THEN LET logicalSourceWidth == PxDiv(Px(b.width), dpr)
                 logicalSourceHeight == PxDiv(Px(b.height), dpr)
                 scaleX == PxDiv(Px(video.width), logicalSourceWidth)
                 scaleY == PxDiv(Px(video.height), logicalSourceHeight)
             IN  [i \in 1..Len(data) |->
                    PtrEvent(data[i].timestamp - firstTimestamp,
                             PxMul(Px(data[i].x) - PxDiv(Px(b.x), dpr), scaleX),
                             PxMul(Px(data[i].y) - PxDiv(Px(b.y), dpr), scaleY))]
        ELSE LET minX == MinOf(XsOf(data))
                 minY == MinOf(YsOf(data))
                 mouseRangeX == MaxOf(XsOf(data)) - minX
                 mouseRangeY == MaxOf(YsOf(data)) - minY
                 scaleX == PxDiv(Px(video.width), Px(mouseRangeX))
                 scaleY == PxDiv(Px(video.height), Px(mouseRangeY))
             IN  [i \in 1..Len(data) |->
                    PtrEvent(data[i].timestamp - firstTimestamp,
                             PxMul(Px(data[i].x - minX), scaleX),
                             PxMul(Px(data[i].y - minY), scaleY))]

\* exportNormalize taking the size of the bounds for their origin
exportNormalizeFromSize(data, b, devicePixelRatio, video) ==
  IF Len(data) = 0 THEN <<>>
  ELSE
    LET firstTimestamp == data[1].timestamp
        dpr == Px(DprOf(devicePixelRatio))
    IN  IF HasBounds(b)
        THEN LET logicalSourceWidth == PxDiv(Px(b.width), dpr)
                 logicalSourceHeight == PxDiv(Px(b.height), dpr)
                 scaleX == PxDiv(Px(video.width), logicalSourceWidth)
                 scaleY == PxDiv(Px(video.height), logicalSourceHeight)
             IN  [i \in 1..Len(data) |->
                    PtrEvent(data[i].timestamp - firstTimestamp,
                             PxMul(Px(data[i].x) - PxDiv(Px(b.width), dpr), scaleX),
                             PxMul(Px(data[i].y) - PxDiv(Px(b.height), dpr), scaleY))]
        ELSE LET minX == MinOf(XsOf(data))
                 minY == MinOf(YsOf(data))
                 mouseRangeX == MaxOf(XsOf(data)) - minX
                 mouseRangeY == MaxOf(YsOf(data)) - minY
                 scaleX == PxDiv(Px(video.width), Px(PxMax(mouseRangeX, 1)))
                 scaleY == PxDiv(Px(video.height), Px(PxMax(mouseRangeY, 1)))
             IN  [i \in 1..Len(data) |->
                    PtrEvent(data[i].timestamp - firstTimestamp,
                             PxMul(Px(data[i].x - minX), scaleX),
                             PxMul(Px(data[i].y - minY), scaleY))]

\* frameRenderer.ts lines 535-600
exportNormalize(data, b, devicePixelRatio, video) ==
  IF Len(data) = 0 THEN <<>>
  ELSE
    LET firstTimestamp == data[1].timestamp
        dpr == Px(DprOf(devicePixelRatio))
    IN  IF HasBounds(b)
        THEN LET logicalSourceWidth == PxDiv(Px(b.width), dpr)
                 logicalSourceHeight == PxDiv(Px(b.height), dpr)
                 scaleX == PxDiv(Px(video.width), logicalSourceWidth)
                 scaleY == PxDiv(Px(video.height), logicalSourceHeight)
             IN  [i \in 1..Len(data) |->
                    PtrEvent(data[i].timestamp - firstTimestamp,
                             PxMul(Px(data[i].x) - PxDiv(Px(b.x), dpr), scaleX),
                             PxMul(Px(data[i].y) - PxDiv(Px(b.y), dpr), scaleY))]
        ELSE LET minX == MinOf(XsOf(data))
                 minY == MinOf(YsOf(data))
                 mouseRangeX == MaxOf(XsOf(data)) - minX
                 mouseRangeY == MaxOf(YsOf(data)) - minY
                 scaleX == PxDiv(Px(video.width), Px(PxMax(mouseRangeX, 1)))
                 scaleY == PxDiv(Px(video.height), Px(PxMax(mouseRangeY, 1)))
             IN  [i \in 1..Len(data) |->
                    PtrEvent(data[i].timestamp - firstTimestamp,
                             PxMul(Px(data[i].x - minX), scaleX),
                             PxMul(Px(data[i].y - minY), scaleY))]

\* part_003 lines 147-281
playbackNormalize(data, b, devicePixelRatio, video) ==
  IF Len(data) = 0 THEN data
  ELSE
    LET firstTimestamp == data[1].timestamp
        dpr == Px(DprOf(devicePixelRatio))
    IN  IF HasBounds(b)
        THEN LET videoScaleX ==
                   IF b.isWindowRecording
                   THEN PxDiv(Px(video.width), PxMul(Px(b.width), dpr))
                   ELSE PxDiv(Px(video.width), Px(b.width))
                 videoScaleY ==
                   IF b.isWindowRecording
                   THEN PxDiv(Px(video.height), PxMul(Px(b.height), dpr))
                   ELSE PxDiv(Px(video.height), Px(b.height))
             IN  [i \in 1..Len(data) |->
                    PtrEvent(data[i].timestamp - firstTimestamp,
                             PxMul(PxMul(Px(data[i].x - b.x), dpr), videoScaleX),
                             PxMul(PxMul(Px(data[i].y - b.y), dpr), videoScaleY))]
        ELSE LET estimatedWindowX == MinOf(XsOf(data))
                 estimatedWindowY == MinOf(YsOf(data))
             IN  [i \in 1..Len(data) |->
                    PtrEvent(data[i].timestamp - firstTimestamp,
                             PxMul(Px(data[i].x - estimatedWindowX), dpr),
                             PxMul(Px(data[i].y - estimatedWindowY), dpr))]

PtIdle ==
  /\ ptData = <<>> /\ ptBounds = NoBounds /\ ptDevicePixelRatio = 1
  /\ ptVideo = [width |-> 16, height |-> 8]
  /\ normalizedTrackingData = <<>> /\ trackingData = <<>> /\ ptDone = {}

PtInit ==
  /\ ptData \in PtrSessions
  /\ ptBounds \in PtrBounds
  /\ ptDevicePixelRatio \in {0, 1, 2}
  /\ ptVideo \in {[width |-> w, height |-> 8] : w \in {16, 32}}
  /\ normalizedTrackingData = <<>> /\ trackingData = <<>> /\ ptDone = {}

\* the exporter's renderer is set up with the cursor configuration
normalizeTrackingData ==
  /\ "export" \notin ptDone
  /\ UNCHANGED exceptPt
  /\ normalizedTrackingData' = exportNormalize(ptData, ptBounds, ptDevicePixelRatio, ptVideo)
  /\ ptDone' = ptDone \cup {"export"}
  /\ UNCHANGED <<ptData, ptBounds, ptDevicePixelRatio, ptVideo, trackingData>>

\* the editor hands the session to the playback cursor renderer
setTrackingData ==
  /\ "playback" \notin ptDone
  /\ UNCHANGED exceptPt
  /\ trackingData' = playbackNormalize(ptData, ptBounds, ptDevicePixelRatio, ptVideo)
  /\ ptDone' = ptDone \cup {"playback"}
  /\ UNCHANGED <<ptData, ptBounds, ptDevicePixelRatio, ptVideo, normalizedTrackingData>>

(***************************************************************************)
(* videoExporter.ts: VideoExporter                                         *)
(*                                                                         *)
(* export() is an async function: it runs without interleaving between two *)
(* awaits.  pc is the await it is suspended at (AwaitPcs) or a position    *)
(* inside a synchronous stretch; cancel(), the encoder's output and error  *)
(* callbacks and timers are tasks, so they run only while export() is      *)
(* suspended or not running.                                               *)
(*                                                                         *)
(* decoder, renderer, encoder, muxer are the fields (NULL or a reference); *)
(* res is the state of the objects behind them: destroy() and close() act  *)
(* on the object, the assignment of null on the field.                     *)
(***************************************************************************)
MAX_ENCODE_QUEUE == 60

AwaitPcs == {"loadVideo", "rendererInit", "muxerInit", "preloadWait",
             "seekWait", "rendering", "bpWait", "flushing"}

InProgress == pc \notin {"idle", "done"}

\* the exports the editor starts: no clips (whole source of the given length,
\* in eighths of a second) or a clip list
ExportConfigs ==
  { [clipRegions |-> <<>>, frameRate |-> 30, durationEighths |-> 0],
    [clipRegions |-> <<>>, frameRate |-> 30, durationEighths |-> MaxDurationEighths],
    [clipRegions |-> <<Clip(200, 300), Clip(0, 100)>>, frameRate |-> 30,
     durationEighths |-> 8] }

\* the last progress event delivered to onProgress; none yet
NoProgress == [currentFrame |-> 0, totalFrames |-> 0]

Cancelled == [success |-> FALSE, error |-> "Export cancelled", blob |-> FALSE]
Failure(e) == [success |-> FALSE, error |-> e, blob |-> FALSE]
Success == [success |-> TRUE, error |-> NULL, blob |-> TRUE]

Fields ==
  [encoder |-> encoder, decoder |-> decoder, renderer |-> renderer, muxer |-> muxer,
   res |-> res, encPending |-> encPending, encodedChunks |-> encodedChunks,
   encodeQueue |-> encodeQueue, videoDescription |-> videoDescription]

\* a cleanup that forgets the renderer
cleanupSkipsRenderer(f) ==
  LET closes == f.encoder # NULL /\ f.res.encoder = "configured"
  IN  [encoder |-> NULL, decoder |-> NULL, renderer |-> f.renderer, muxer |-> NULL,
       res |-> [decoder  |-> IF f.decoder # NULL THEN "destroyed" ELSE f.res.decoder,
                renderer |-> f.res.renderer,
                encoder  |-> IF closes THEN "closed" ELSE f.res.encoder],
       encPending |-> IF closes THEN <<>> ELSE f.encPending,
       encodedChunks |-> <<>>, encodeQueue |-> 0, videoDescription |-> NULL]

\* cleanup(): close the encoder if configured, destroy decoder and renderer,
\* drop all four references, reset the chunk buffer and the in-flight counter
cleanup(f) ==
  LET closes == f.encoder # NULL /\ f.res.encoder = "configured"
  IN  [encoder |-> NULL, decoder |-> NULL, renderer |-> NULL, muxer |-> NULL,
       res |-> [decoder  |-> IF f.decoder # NULL THEN "destroyed" ELSE f.res.decoder,
                renderer |-> IF f.renderer # NULL THEN "destroyed" ELSE f.res.renderer,
                encoder  |-> IF closes THEN "closed" ELSE f.res.encoder],
       encPending |-> IF closes THEN <<>> ELSE f.encPending,
       encodedChunks |-> <<>>, encodeQueue |-> 0, videoDescription |-> NULL]

SetFields(c) ==
  /\ encoder' = c.encoder /\ decoder' = c.decoder /\ renderer' = c.renderer
  /\ muxer' = c.muxer /\ res' = c.res /\ encPending' = c.encPending
  /\ encodedChunks' = c.encodedChunks /\ encodeQueue' = c.encodeQueue
  /\ videoDescription' = c.videoDescription

\* a return or a caught exception of export(): the result is fixed, the finally
\* block runs cleanup() on the fields f, and the promise resolves
Return(r, f) ==
  /\ result' = r
  /\ SetFields(cleanup(f))
  /\ timers' = {}
  /\ pc' = "done"

\* the frames of the whole source, lines 69-73: i / frameRate for
\* i < ceil(duration * frameRate), kept in milliseconds like the clip samples
\* (durations are multiples of 1/8 s, so the product and its ceiling are exact)
WholeSourceTimes(durationEighths, frameRate) ==
  LET n == (durationEighths * frameRate + 7) \div 8
  IN  [i \in 1..n |-> FDivInt((i - 1) * 1000, frameRate)]

\* lines 64-77
FrameTimesOf(cfg) ==
  IF Len(cfg.clipRegions) = 0
  THEN WholeSourceTimes(cfg.durationEighths, cfg.frameRate)
  ELSE generateClipFrameTimes(cfg.clipRegions, cfg.frameRate)

\* lines 94 and 114: frameIndex * frameDuration with
\* frameDuration = 1_000_000 / frameRate, in microseconds
outputTimestamp(k, frameRate) == FMulInt(k, FDivInt(1000000, frameRate))

\* Math.abs(videoElement.currentTime - sourceVideoTime) > 0.001, in milliseconds
NeedSeek(cur, target) == FLess(FromInt(1), FSubAbs(cur, target))

\* the backpressure loop waiting one frame too late
MustWaitOffByOne(queue, isCancelled) == queue > MAX_ENCODE_QUEUE /\ ~isCancelled

\* the condition of the backpressure loop, line 144
MustWait(queue, isCancelled) == queue >= MAX_ENCODE_QUEUE /\ ~isCancelled

ExpInit ==
  /\ pc = "idle"
  /\ config \in ExportConfigs
  /\ decoder = NULL /\ renderer = NULL /\ encoder = NULL /\ muxer = NULL
  /\ cancelled = FALSE
  /\ encodedChunks = <<>>
  /\ encodeQueue = 0
  /\ videoDescription = NULL
  /\ frameTimes = <<>> /\ totalFrames = 0 /\ frameIndex = 0
  /\ currentTime = FromInt(0)
  /\ res = [decoder |-> "none", renderer |-> "none", encoder |-> "none"]
  /\ encPending = <<>>
  /\ timers = {}
  /\ progress = NoProgress
  /\ result = NULL
  /\ hist = [exports |-> 0, cancelCalled |-> FALSE, finalized |-> FALSE,
             encoderFailed |-> FALSE, encoderCreated |-> FALSE,
             muxerCreated |-> FALSE, scheduled |-> FALSE, lateCancel |-> FALSE]

ExpIdle == ExpInit /\ config = [clipRegions |-> <<>>, frameRate |-> 30, durationEighths |-> 0]

\* export() without the reset of the cancellation flag
StartExportKeepsFlag ==
  /\ pc \in {"idle", "done"}
  /\ UNCHANGED exceptExp
  /\ hist.exports < MaxExports
  /\ LET c == cleanup(Fields)
     IN  SetFields([c EXCEPT !.decoder = "ref", !.res.decoder = "open"])
  /\ result' = NULL
  /\ progress' = NoProgress
  /\ frameTimes' = <<>> /\ totalFrames' = 0 /\ frameIndex' = 0
  /\ currentTime' = FromInt(0)
  /\ timers' = {}
  /\ hist' = [exports |-> hist.exports + 1, cancelCalled |-> FALSE, finalized |-> FALSE,
              encoderFailed |-> FALSE, encoderCreated |-> FALSE,
              muxerCreated |-> FALSE, scheduled |-> FALSE,
              lateCancel |-> hist.lateCancel]
  /\ pc' = "loadVideo"
  /\ UNCHANGED <<config, cancelled>>

\* export(), lines 37-44: cleanup, reset of the flag, new decoder, await loadVideo
StartExport ==
  /\ pc \in {"idle", "done"}
  /\ UNCHANGED exceptExp
  /\ hist.exports < MaxExports
  /\ LET c == cleanup(Fields)
     IN  SetFields([c EXCEPT !.decoder = "ref", !.res.decoder = "open"])
  /\ cancelled' = FALSE
  /\ result' = NULL
  /\ progress' = NoProgress
  /\ frameTimes' = <<>> /\ totalFrames' = 0 /\ frameIndex' = 0
  /\ currentTime' = FromInt(0)
  /\ timers' = {}
  /\ hist' = [exports |-> hist.exports + 1, cancelCalled |-> FALSE, finalized |-> FALSE,
              encoderFailed |-> FALSE, encoderCreated |-> FALSE,
              muxerCreated |-> FALSE, scheduled |-> FALSE,
              lateCancel |-> hist.lateCancel]
  /\ pc' = "loadVideo"
  /\ UNCHANGED config

\* line 44 resolves; lines 47-60: new FrameRenderer, await initialize
LoadVideoResolve ==
  /\ pc = "loadVideo"
  /\ UNCHANGED exceptExp
  /\ renderer' = "ref"
  /\ res' = [res EXCEPT !.renderer = "open"]
  /\ pc' = "rendererInit"
  /\ UNCHANGED <<config, decoder, encoder, muxer, cancelled, encodedChunks, encodeQueue,
                 videoDescription, frameTimes, totalFrames, frameIndex, currentTime,
                 encPending, timers, progress, result, hist>>

\* line 44 rejects
LoadVideoReject ==
  /\ pc = "loadVideo"
  /\ UNCHANGED exceptExp
  /\ Return(Failure("LoadError"), Fields)
  /\ UNCHANGED <<config, cancelled, frameTimes, totalFrames, frameIndex, currentTime,
                 progress, hist>>

\* line 60 resolves; lines 64-86: the schedule, initializeEncoder (lines 224-256,
\* no await inside), new VideoMuxer, await muxer.initialize
RendererInitResolve ==
  /\ pc = "rendererInit"
  /\ UNCHANGED exceptExp
  /\ frameTimes' = FrameTimesOf(config)
  /\ totalFrames' = Len(FrameTimesOf(config))
  /\ encodedChunks' = <<>>
  /\ encodeQueue' = 0
  /\ encPending' = <<>>
  /\ encoder' = "ref"
  /\ res' = [res EXCEPT !.encoder = "configured"]
  /\ muxer' = "ref"
  /\ hist' = [hist EXCEPT !.scheduled = TRUE, !.encoderCreated = TRUE, !.muxerCreated = TRUE]
  /\ pc' = "muxerInit"
  /\ UNCHANGED <<config, decoder, renderer, cancelled, videoDescription, frameIndex,
                 currentTime, timers, progress, result>>

\* line 60 rejects
RendererInitReject ==
  /\ pc = "rendererInit"
  /\ UNCHANGED exceptExp
  /\ Return(Failure("RendererError"), Fields)
  /\ UNCHANGED <<config, cancelled, frameTimes, totalFrames, frameIndex, currentTime,
                 progress, hist>>

\* line 246: encoder.configure throws; the encoder exists but is unconfigured
EncoderConfigureThrows ==
  /\ pc = "rendererInit"
  /\ UNCHANGED exceptExp
  /\ frameTimes' = FrameTimesOf(config)
  /\ totalFrames' = Len(FrameTimesOf(config))
  /\ Return(Failure("ConfigureError"),
            [Fields EXCEPT !.encoder = "ref", !.res.encoder = "unconfigured",
                           !.encodedChunks = <<>>, !.encodeQueue = 0])
  /\ hist' = [hist EXCEPT !.scheduled = TRUE, !.encoderCreated = TRUE]
  /\ UNCHANGED <<config, cancelled, frameIndex, currentTime, progress>>

\* line 86 resolves; lines 89-108: the video element, the pre-load seek
MuxerInitResolve ==
  /\ pc = "muxerInit"
  /\ UNCHANGED exceptExp
  /\ IF decoder = NULL
     THEN /\ Return(Failure("TypeError"), Fields)
          /\ UNCHANGED <<currentTime, frameIndex>>
     ELSE /\ frameIndex' = 0
          /\ IF Len(frameTimes) > 0
             THEN /\ currentTime' = frameTimes[1]
                  /\ pc' = "preloadWait"
             ELSE /\ pc' = "loopTop"
                  /\ UNCHANGED currentTime
          /\ UNCHANGED <<decoder, renderer, encoder, muxer, res, encPending, encodedChunks,
                         encodeQueue, videoDescription, timers, result>>
  /\ UNCHANGED <<config, cancelled, frameTimes, totalFrames, progress, hist>>

\* line 86 rejects
MuxerInitReject ==
  /\ pc = "muxerInit"
  /\ UNCHANGED exceptExp
  /\ Return(Failure("MuxerError"), Fields)
  /\ UNCHANGED <<config, cancelled, frameTimes, totalFrames, frameIndex, currentTime,
                 progress, hist>>

\* lines 101-107: the 'seeked' event of the pre-load seek (the source may
\* also never fire it; nothing else ends this wait)
PreloadSeeked ==
  /\ pc = "preloadWait"
  /\ UNCHANGED exceptExp
  /\ pc' = "loopTop"
  /\ UNCHANGED <<config, decoder, renderer, encoder, muxer, cancelled, encodedChunks,
                 encodeQueue, videoDescription, frameTimes, totalFrames, frameIndex,
                 currentTime, res, encPending, timers, progress, result, hist>>

\* lines 110-130: the loop condition and the seek of one frame
LoopTop ==
  /\ pc = "loopTop"
  /\ UNCHANGED exceptExp
  /\ IF frameIndex < totalFrames /\ ~cancelled
     THEN IF NeedSeek(currentTime, frameTimes[frameIndex + 1])
          THEN /\ currentTime' = frameTimes[frameIndex + 1]
               /\ timers' = timers \cup {"seek"}
               /\ pc' = "seekWait"
          ELSE /\ pc' = "makeFrame"
               /\ UNCHANGED <<currentTime, timers>>
     ELSE /\ pc' = "afterLoop"
          /\ UNCHANGED <<currentTime, timers>>
  /\ UNCHANGED <<config, decoder, renderer, encoder, muxer, cancelled, encodedChunks,
                 encodeQueue, videoDescription, frameTimes, totalFrames, frameIndex,
                 res, encPending, progress, result, hist>>

\* lines 120-127: 'seeked' and the video frame callback win the race
SeekSettled ==
  /\ pc = "seekWait"
  /\ UNCHANGED exceptExp
  /\ timers' = timers \ {"seek"}
  /\ pc' = "makeFrame"
  /\ UNCHANGED <<config, decoder, renderer, encoder, muxer, cancelled, encodedChunks,
                 encodeQueue, videoDescription, frameTimes, totalFrames, frameIndex,
                 currentTime, res, encPending, progress, result, hist>>

\* line 128: the 200 ms timer wins the race
SeekTimeout ==
  /\ pc = "seekWait"
  /\ UNCHANGED exceptExp
  /\ "seek" \in timers
  /\ timers' = timers \ {"seek"}
  /\ pc' = "makeFrame"
  /\ UNCHANGED <<config, decoder, renderer, encoder, muxer, cancelled, encodedChunks,
                 encodeQueue, videoDescription, frameTimes, totalFrames, frameIndex,
                 currentTime, res, encPending, progress, result, hist>>

\* lines 134-140: new VideoFrame from the element, then renderFrame on
\* this.renderer (a null renderer throws on the call)
MakeFrame ==
  /\ pc = "makeFrame"
  /\ UNCHANGED exceptExp
  /\ IF renderer = NULL
     THEN Return(Failure("TypeError"), Fields)
     ELSE /\ pc' = "rendering"
          /\ UNCHANGED <<decoder, renderer, encoder, muxer, res, encPending, encodedChunks,
                         encodeQueue, videoDescription, timers, result>>
  /\ UNCHANGED <<config, cancelled, frameTimes, totalFrames, frameIndex, currentTime,
                 progress, hist>>

\* line 135: the VideoFrame constructor throws
MakeFrameThrows ==
  /\ pc = "makeFrame"
  /\ UNCHANGED exceptExp
  /\ Return(Failure("FrameError"), Fields)
  /\ UNCHANGED <<config, cancelled, frameTimes, totalFrames, frameIndex, currentTime,
                 progress, hist>>

\* line 140 resolves; line 142
RenderResolve ==
  /\ pc = "rendering"
  /\ UNCHANGED exceptExp
  /\ pc' = "bpCheck"
  /\ UNCHANGED <<config, decoder, renderer, encoder, muxer, cancelled, encodedChunks,
                 encodeQueue, videoDescription, frameTimes, totalFrames, frameIndex,
                 currentTime, res, encPending, timers, progress, result, hist>>

\* line 140 rejects
RenderReject ==
  /\ pc = "rendering"
  /\ UNCHANGED exceptExp
  /\ Return(Failure("RendererError"), Fields)
  /\ UNCHANGED <<config, cancelled, frameTimes, totalFrames, frameIndex, currentTime,
                 progress, hist>>

\* lines 144-146: the backpressure loop is entered or passed
BpCheck ==
  /\ pc = "bpCheck"
  /\ UNCHANGED exceptExp
  /\ IF MustWait(encodeQueue, cancelled)
     THEN /\ timers' = timers \cup {"bp"}
          /\ pc' = "bpWait"
     ELSE /\ pc' = "submit"
          /\ UNCHANGED timers
  /\ UNCHANGED <<config, decoder, renderer, encoder, muxer, cancelled, encodedChunks,
                 encodeQueue, videoDescription, frameTimes, totalFrames, frameIndex,
                 currentTime, res, encPending, progress, result, hist>>

\* line 145: the 1 ms timer fires and the loop condition is evaluated again
\* (a wake that finds it still true arms the next timer and changes nothing)
BpWake ==
  /\ pc = "bpWait"
  /\ UNCHANGED exceptExp
  /\ "bp" \in timers
  /\ ~MustWait(encodeQueue, cancelled)
  /\ timers' = timers \ {"bp"}
  /\ pc' = "submit"
  /\ UNCHANGED <<config, decoder, renderer, encoder, muxer, cancelled, encodedChunks,
                 encodeQueue, videoDescription, frameTimes, totalFrames, frameIndex,
                 currentTime, res, encPending, progress, result, hist>>

\* Submit reporting the index of the frame instead of the count of frames done
SubmitReportsIndex ==
  /\ pc = "submit"
  /\ UNCHANGED exceptExp
  /\ IF cancelled
     THEN /\ pc' = "afterLoop"
          /\ UNCHANGED <<encodeQueue, encPending, frameIndex, progress>>
     ELSE /\ IF encoder # NULL /\ res.encoder = "configured"
             THEN /\ encodeQueue' = encodeQueue + 1
                  /\ encPending' = Append(encPending,
                                 [index |-> frameIndex,
                                  timestamp |-> outputTimestamp(frameIndex, config.frameRate)])
             ELSE UNCHANGED <<encodeQueue, encPending>>
          /\ frameIndex' = frameIndex + 1
          /\ progress' = [currentFrame |-> frameIndex, totalFrames |-> totalFrames]
          /\ pc' = "loopTop"
  /\ UNCHANGED <<config, decoder, renderer, encoder, muxer, cancelled, encodedChunks,
                 videoDescription, frameTimes, totalFrames, currentTime, res, timers,
                 result, hist>>

\* Submit stamping the frame with its source time instead of its output time
SubmitStampsSourceTime ==
  /\ pc = "submit"
  /\ UNCHANGED exceptExp
  /\ IF cancelled
     THEN /\ pc' = "afterLoop"
          /\ UNCHANGED <<encodeQueue, encPending, frameIndex, progress>>
     ELSE /\ IF encoder # NULL /\ res.encoder = "configured"
             THEN /\ encodeQueue' = encodeQueue + 1
                  /\ encPending' = Append(encPending,
                                 [index |-> frameIndex,
                                  timestamp |-> FMulInt(1000, frameTimes[frameIndex + 1])])
             ELSE UNCHANGED <<encodeQueue, encPending>>
          /\ frameIndex' = frameIndex + 1
          /\ progress' = [currentFrame |-> frameIndex + 1, totalFrames |-> totalFrames]
          /\ pc' = "loopTop"
  /\ UNCHANGED <<config, decoder, renderer, encoder, muxer, cancelled, encodedChunks,
                 videoDescription, frameTimes, totalFrames, currentTime, res, timers,
                 result, hist>>

\* lines 148-179: the cancellation check, the export frame, encode, progress
Submit ==
  /\ pc = "submit"
  /\ UNCHANGED exceptExp
  /\ IF cancelled
     THEN /\ pc' = "afterLoop"
          /\ UNCHANGED <<encodeQueue, encPending, frameIndex, progress>>
     ELSE /\ IF encoder # NULL /\ res.encoder = "configured"
             THEN /\ encodeQueue' = encodeQueue + 1
                  /\ encPending' = Append(encPending,
                                 [index |-> frameIndex,
                                  timestamp |-> outputTimestamp(frameIndex, config.frameRate)])
             ELSE UNCHANGED <<encodeQueue, encPending>>
          /\ frameIndex' = frameIndex + 1
          /\ progress' = [currentFrame |-> frameIndex + 1, totalFrames |-> totalFrames]
          /\ pc' = "loopTop"
  /\ UNCHANGED <<config, decoder, renderer, encoder, muxer, cancelled, encodedChunks,
                 videoDescription, frameTimes, totalFrames, currentTime, res, timers,
                 result, hist>>

\* lines 153-166: the VideoFrame constructor or encode throws
SubmitThrows ==
  /\ pc = "submit"
  /\ UNCHANGED exceptExp
  /\ ~cancelled
  /\ Return(Failure("EncodeError"), Fields)
  /\ UNCHANGED <<config, cancelled, frameTimes, totalFrames, frameIndex, currentTime,
                 progress, hist>>

\* lines 182-189: the cancelled return, the flush
AfterLoop ==
  /\ pc = "afterLoop"
  /\ UNCHANGED exceptExp
  /\ IF cancelled
     THEN Return(Cancelled, Fields)
     ELSE /\ pc' = IF encoder # NULL /\ res.encoder = "configured" THEN "flushing" ELSE "mux"
          /\ UNCHANGED <<decoder, renderer, encoder, muxer, res, encPending, encodedChunks,
                         encodeQueue, videoDescription, timers, result>>
  /\ UNCHANGED <<config, cancelled, frameTimes, totalFrames, frameIndex, currentTime,
                 progress, hist>>

\* line 188 resolves: every submitted frame has been emitted
FlushResolve ==
  /\ pc = "flushing"
  /\ UNCHANGED exceptExp
  /\ res.encoder = "configured"
  /\ encPending = <<>>
  /\ pc' = "mux"
  /\ UNCHANGED <<config, decoder, renderer, encoder, muxer, cancelled, encodedChunks,
                 encodeQueue, videoDescription, frameTimes, totalFrames, frameIndex,
                 currentTime, res, encPending, timers, progress, result, hist>>

\* line 188 rejects: the encoder was closed, by close() or by an error
FlushReject ==
  /\ pc = "flushing"
  /\ UNCHANGED exceptExp
  /\ res.encoder = "closed"
  /\ Return(Failure(IF hist.encoderFailed THEN "EncoderError" ELSE "AbortError"), Fields)
  /\ UNCHANGED <<config, cancelled, frameTimes, totalFrames, frameIndex, currentTime,
                 progress, hist>>

\* lines 192-212: the chunks go to the muxer, finalize, the success result
Mux ==
  /\ pc = "mux"
  /\ UNCHANGED exceptExp
  /\ IF muxer = NULL
     THEN /\ Return(Failure("TypeError"), Fields)
          /\ UNCHANGED hist
     ELSE /\ Return(Success, Fields)
          /\ hist' = [hist EXCEPT !.finalized = TRUE]
  /\ UNCHANGED <<config, cancelled, frameTimes, totalFrames, frameIndex, currentTime,
                 progress>>

\* lines 206-210: addVideoChunk or finalize throws
MuxThrows ==
  /\ pc = "mux"
  /\ UNCHANGED exceptExp
  /\ muxer # NULL
  /\ Return(Failure("MuxerError"), Fields)
  /\ UNCHANGED <<config, cancelled, frameTimes, totalFrames, frameIndex, currentTime,
                 progress, hist>>

\* a cancel() that neither raises the flag nor tears anything down
CancelWithoutEffect ==
  /\ pc \in AwaitPcs \cup {"idle", "done"}
  /\ UNCHANGED exceptExp
  /\ hist' = [hist EXCEPT !.cancelCalled = hist.cancelCalled \/ InProgress,
                          !.lateCancel = hist.lateCancel \/ pc = "done"]
  /\ UNCHANGED <<pc, config, decoder, renderer, encoder, muxer, cancelled, encodedChunks,
                 encodeQueue, videoDescription, frameTimes, totalFrames, frameIndex,
                 currentTime, res, encPending, timers, progress, result>>

\* cancel(), lines 258-261
Cancel ==
  /\ pc \in AwaitPcs \cup {"idle", "done"}
  /\ UNCHANGED exceptExp
  /\ cancelled' = TRUE
  /\ SetFields(cleanup(Fields))
  /\ hist' = [hist EXCEPT !.cancelCalled = hist.cancelCalled \/ InProgress,
                          !.lateCancel = hist.lateCancel \/ pc = "done"]
  /\ UNCHANGED <<pc, config, frameTimes, totalFrames, frameIndex, currentTime, timers,
                 progress, result>>

\* the encoder's output callback, lines 230-238 (a configured encoder emits
\* the frames in submission order; a closed one emits nothing)
EncoderOutput ==
  /\ pc \in AwaitPcs
  /\ UNCHANGED exceptExp
  /\ encoder # NULL /\ res.encoder = "configured"
  /\ encPending # <<>>
  /\ videoDescription' = IF videoDescription = NULL THEN "description" ELSE videoDescription
  /\ encodedChunks' = Append(encodedChunks, Head(encPending))
  /\ encodeQueue' = encodeQueue - 1
  /\ encPending' = Tail(encPending)
  /\ UNCHANGED <<pc, config, decoder, renderer, encoder, muxer, cancelled, frameTimes,
                 totalFrames, frameIndex, currentTime, res, timers, progress, result, hist>>

\* the encoder's error callback, lines 239-241: the encoder closes itself and
\* drops its pending frames; the callback only logs
EncoderError ==
  /\ pc \in AwaitPcs
  /\ UNCHANGED exceptExp
  /\ encoder # NULL /\ res.encoder = "configured"
  /\ res' = [res EXCEPT !.encoder = "closed"]
  /\ encPending' = <<>>
  /\ hist' = [hist EXCEPT !.encoderFailed = TRUE]
  /\ UNCHANGED <<pc, config, decoder, renderer, encoder, muxer, cancelled, encodedChunks,
                 encodeQueue, videoDescription, frameTimes, totalFrames, frameIndex,
                 currentTime, timers, progress, result>>

(***************************************************************************)
(* Timeline editing: TimelineEditor (part_010) and TimelineWrapper.tsx,    *)
(* with VideoEditor's handlers that store the result.  A track is the      *)
(* array of its regions in the order they were added.  The spans the       *)
(* drag-and-drop library reports are fractional milliseconds: Span values  *)
(* are in units of half a millisecond, region fields in whole              *)
(* milliseconds (the handlers round).                                      *)
(***************************************************************************)
SNAP_THRESHOLD_MS == 50
\* calculateTimelineScale, part_010 line 92
minItemDurationMs == 1

Half(ms) == 2 * ms
\* Math.round of a non-negative number of half milliseconds
MathRound(h) == (h + 1) \div 2
Abs(x) == IF x < 0 THEN 0 - x ELSE x
Min2(a, b) == IF a < b THEN a ELSE b
Max2(a, b) == IF a > b THEN a ELSE b

Span(s, e) == [start |-> s, end |-> e]
\* `zoom-${n}`, `clip-${n}`
ItemId(kind, n) == [kind |-> kind, n |-> n]
Region(id, s, e) == [id |-> id, startMs |-> s, endMs |-> e]
\* id.startsWith('clip-')
isClipItem(id) == id.kind = "clip"

RECURSIVE EdgesFrom(_, _, _)
EdgesFrom(regions, activeItemId, i) ==
  IF i > Len(regions) THEN <<>>
  ELSE (IF regions[i].id # activeItemId
        THEN <<regions[i].startMs, regions[i].endMs>> ELSE <<>>)
       \o EdgesFrom(regions, activeItemId, i + 1)

\* TimelineWrapper.tsx lines 41-54
getSnapPoints(activeItemId, clips, zooms, totalMs) ==
  <<0, totalMs>> \o EdgesFrom(IF isClipItem(activeItemId) THEN clips ELSE zooms,
                              activeItemId, 1)

\* the first snap point within the threshold of v, 0 when there is none
SnapIndex(points, v) ==
  LET hits == {i \in 1..Len(points) : Abs(v - Half(points[i])) <= Half(SNAP_THRESHOLD_MS)}
  IN  IF hits = {} THEN 0 ELSE CHOOSE i \in hits : \A j \in hits : i <= j

\* TimelineWrapper.tsx lines 57-95
snapSpan(span, points) ==
  LET duration == span.end - span.start
      si == SnapIndex(points, span.start)
      ei == SnapIndex(points, span.end)
      snappedStart == IF si = 0 THEN span.start ELSE Half(points[si])
      snappedEnd == IF ei = 0 THEN span.end ELSE Half(points[ei])
  IN  IF si # 0 /\ ei = 0 THEN Span(snappedStart, snappedStart + duration)
      ELSE IF ei # 0 /\ si = 0 THEN Span(snappedEnd - duration, snappedEnd)
      ELSE Span(snappedStart, snappedEnd)

\* TimelineWrapper.tsx lines 98-123
snapSpanResize(span, points, resizeEdge) ==
  LET si == SnapIndex(points, span.start)
      ei == SnapIndex(points, span.end)
  IN  IF resizeEdge = "start"
      THEN Span(IF si = 0 THEN span.start ELSE Half(points[si]), span.end)
      ELSE Span(span.start, IF ei = 0 THEN span.end ELSE Half(points[ei]))

\* TimelineWrapper.tsx lines 125-149
clampSpanToBounds(span, totalMs) ==
  LET rawDuration == Max2(span.end - span.start, 0)
      normalizedStart == span.start
  IN  IF totalMs = 0
      THEN LET minDuration == Max2(Half(minItemDurationMs), Half(1))
               duration == Max2(rawDuration, minDuration)
               start == Max2(0, normalizedStart)
           IN  Span(start, start + duration)
      ELSE LET minDuration == Min2(Max2(Half(minItemDurationMs), Half(1)), Half(totalMs))
               duration == Min2(Max2(rawDuration, minDuration), Half(totalMs))
               start == Max2(0, Min2(normalizedStart, Half(totalMs) - duration))
           IN  Span(start, start + duration)

\* part_010 lines 464-486: hasZoomOverlap and hasClipOverlap on their track
hasTrackOverlap(newSpan, excludeId, regions) ==
  \E i \in 1..Len(regions) :
    /\ regions[i].id # excludeId
    /\ LET gapBefore == newSpan.start - Half(regions[i].endMs)
           gapAfter == Half(regions[i].startMs) - newSpan.end
       IN  \/ gapBefore > 0 /\ gapBefore <= Half(2)
           \/ gapAfter > 0 /\ gapAfter <= Half(2)
           \/ ~(newSpan.end <= Half(regions[i].startMs)
                \/ newSpan.start >= Half(regions[i].endMs))

\* hasOverlap looking at the track the item is not on
hasOverlapOtherTrack(newSpan, excludeId, clips, zooms) ==
  IF isClipItem(excludeId)
  THEN hasTrackOverlap(newSpan, excludeId, zooms)
  ELSE hasTrackOverlap(newSpan, excludeId, clips)

\* part_010 lines 489-496
hasOverlap(newSpan, excludeId, clips, zooms) ==
  IF isClipItem(excludeId)
  THEN hasTrackOverlap(newSpan, excludeId, clips)
  ELSE hasTrackOverlap(newSpan, excludeId, zooms)

NoSpan == Span(0 - 1, 0 - 1)

\* part_010 lines 516-534, on whole milliseconds
RECURSIVE findGapAtPosition(_, _, _, _)
findGapAtPosition(sorted, i, startPos, totalMs) ==
  IF i > Len(sorted) THEN Span(startPos, totalMs)
  ELSE IF startPos >= sorted[i].startMs /\ startPos < sorted[i].endMs THEN NoSpan
  ELSE IF sorted[i].startMs > startPos THEN Span(startPos, sorted[i].startMs)
  ELSE findGapAtPosition(sorted, i + 1, startPos, totalMs)

\* part_010 lines 542-562
RECURSIVE GapsFrom(_, _, _, _)
GapsFrom(sorted, i, currentPos, totalMs) ==
  IF i > Len(sorted)
  THEN IF currentPos < totalMs THEN <<Span(currentPos, totalMs)>> ELSE <<>>
  ELSE (IF currentPos < sorted[i].startMs
        THEN <<Span(currentPos, sorted[i].startMs)>> ELSE <<>>)
       \o GapsFrom(sorted, i + 1, Max2(currentPos, sorted[i].endMs), totalMs)

GapSize(g) == g.end - g.start

\* viableGaps.reduce((a, b) => a.size > b.size ? a : b)
RECURSIVE LargestFrom(_, _, _)
LargestFrom(gaps, i, a) ==
  IF i > Len(gaps) THEN a
  ELSE LargestFrom(gaps, i + 1, IF GapSize(a) > GapSize(gaps[i]) THEN a ELSE gaps[i])

\* part_010 lines 498-588 (handleAddZoom) and 590-680 (handleAddClip): the span
\* handed to onZoomAdded / onClipAdded, NoSpan when nothing is added
AddedSpan(regions, playheadMs, totalMs) ==
  IF totalMs = 0 THEN NoSpan
  ELSE
    LET preferredDuration == Min2(3000, totalMs)
        minDuration == Max2(500, Min2(minItemDurationMs, totalMs))
        sorted == sortClips(regions)
        atPlayhead == findGapAtPosition(sorted, 1, playheadMs, totalMs)
        viableGaps == SelectSeq(GapsFrom(sorted, 1, 0, totalMs),
                                LAMBDA g : GapSize(g) >= minDuration)
        gapsAfterPlayhead == SelectSeq(viableGaps, LAMBDA g : g.start >= playheadMs)
        gap == IF atPlayhead = NoSpan \/ GapSize(atPlayhead) < minDuration
               THEN IF Len(viableGaps) = 0 THEN NoSpan
                    ELSE IF Len(gapsAfterPlayhead) > 0 THEN gapsAfterPlayhead[1]
                    ELSE LargestFrom(viableGaps, 2, viableGaps[1])
               ELSE atPlayhead
    IN  IF gap = NoSpan THEN NoSpan
        ELSE Span(Half(gap.start), Half(gap.start + Min2(preferredDuration, GapSize(gap))))

\* VideoEditor.tsx lines 135-147: handleZoomAdded (and its twin for clips)
RegionAdded(regions, id, span) ==
  Append(regions, Region(id, MathRound(span.start), MathRound(span.end)))

\* VideoEditor.tsx lines 149-162: handleZoomSpanChange (and its twin for clips)
SpanChanged(regions, id, span) ==
  [i \in 1..Len(regions) |->
     IF regions[i].id = id
     THEN Region(id, MathRound(span.start), MathRound(span.end))
     ELSE regions[i]]

\* part_010 lines 446-462: the effect that re-normalizes every zoom region
\* whenever the zoom regions change
normalizeZoomRegions(zooms, totalMs) ==
  IF totalMs = 0 THEN zooms
  ELSE
    LET safeMinDurationMs == Min2(minItemDurationMs, totalMs)
    IN  [i \in 1..Len(zooms) |->
           LET clampedStart == Max2(0, Min2(zooms[i].startMs, totalMs))
               minEnd == clampedStart + safeMinDurationMs
               clampedEnd == Min2(totalMs, Max2(minEnd, zooms[i].endMs))
               normalizedStart == Max2(0, Min2(clampedStart, totalMs - safeMinDurationMs))
               normalizedEnd == Max2(minEnd, Min2(clampedEnd, totalMs))
           IN  Region(zooms[i].id, normalizedStart, normalizedEnd)]

\* the effect runs again after every change it makes
RECURSIVE ZoomsSettled(_, _)
ZoomsSettled(zooms, totalMs) ==
  LET next == normalizeZoomRegions(zooms, totalMs)
  IN  IF next = zooms THEN zooms ELSE ZoomsSettled(next, totalMs)

\* tracks the editor starts from, in whole milliseconds: empty, or one region
\* over the second quarter of the video
InitialTracks(kind, totalMs) ==
  {<<>>, <<Region(ItemId(kind, 1), totalMs \div 4, totalMs \div 2)>>}

\* positions of the playhead and positions an edge is dropped at (half ms)
Playheads == {0, 700, 1500, 2500, 4000}
DropPositions == {0, 61, 1103, 1997, 2000, 3900, 4001, 4005, 6000, 7999}

TlIdle ==
  /\ tlTotalMs = 0 /\ zoomRegions = <<>> /\ clipRegions = <<>>
  /\ nextZoomIdRef = 1 /\ nextClipIdRef = 1 /\ tlOps = 0

TlInit ==
  /\ tlTotalMs \in {400, 4000}
  /\ zoomRegions \in InitialTracks("zoom", tlTotalMs)
  /\ clipRegions \in InitialTracks("clip", tlTotalMs)
  /\ nextZoomIdRef = Len(zoomRegions) + 1
  /\ nextClipIdRef = Len(clipRegions) + 1
  /\ tlOps = 0

TrackOf(kind) == IF kind = "clip" THEN clipRegions ELSE zoomRegions

\* the span is stored on the track of the item; a change of the zoom track is
\* followed by the normalizing effect
StoreTrack(kind, regions) ==
  /\ tlOps' = tlOps + 1
  /\ UNCHANGED tlTotalMs
  /\ IF kind = "clip"
     THEN clipRegions' = regions /\ UNCHANGED zoomRegions
     ELSE zoomRegions' = ZoomsSettled(regions, tlTotalMs) /\ UNCHANGED clipRegions

\* the Add Zoom / Add Clip button
handleAdd ==
  /\ tlOps < MaxTimelineOps
  /\ UNCHANGED exceptTl
  /\ \E kind \in {"zoom", "clip"}, playheadMs \in Playheads :
       LET span == AddedSpan(TrackOf(kind), playheadMs, tlTotalMs)
           n == IF kind = "clip" THEN nextClipIdRef ELSE nextZoomIdRef
       IN  /\ playheadMs <= tlTotalMs
           /\ span # NoSpan
           /\ StoreTrack(kind, RegionAdded(TrackOf(kind), ItemId(kind, n), span))
           /\ IF kind = "clip"
              THEN nextClipIdRef' = n + 1 /\ UNCHANGED nextZoomIdRef
              ELSE nextZoomIdRef' = n + 1 /\ UNCHANGED nextClipIdRef

\* TimelineWrapper.tsx lines 209-228: an item dropped with its start at p
onDragEnd ==
  /\ tlOps < MaxTimelineOps
  /\ UNCHANGED exceptTl
  /\ \E kind \in {"zoom", "clip"}, p \in DropPositions :
       \E i \in 1..Len(TrackOf(kind)) :
         LET item == TrackOf(kind)[i]
             updatedSpan == Span(p, p + Half(item.endMs - item.startMs))
             snappedSpan ==
               snapSpan(updatedSpan,
                        getSnapPoints(item.id, clipRegions, zoomRegions, tlTotalMs))
             clampedSpan == clampSpanToBounds(snappedSpan, tlTotalMs)
         IN  /\ ~hasOverlap(clampedSpan, item.id, clipRegions, zoomRegions)
             /\ StoreTrack(kind, SpanChanged(TrackOf(kind), item.id, clampedSpan))
             /\ UNCHANGED <<nextZoomIdRef, nextClipIdRef>>

\* TimelineWrapper.tsx lines 181-207: one edge of an item dropped at p
onResizeEnd ==
  /\ tlOps < MaxTimelineOps
  /\ UNCHANGED exceptTl
  /\ \E kind \in {"zoom", "clip"}, p \in DropPositions, moved \in {"start", "end"} :
       \E i \in 1..Len(TrackOf(kind)) :
         LET item == TrackOf(kind)[i]
             originalSpan == Span(Half(item.startMs), Half(item.endMs))
             updatedSpan == IF moved = "start" THEN Span(p, originalSpan.end)
                            ELSE Span(originalSpan.start, p)
             resizeEdge ==
               IF Abs(updatedSpan.start - originalSpan.start)
                    > Abs(updatedSpan.end - originalSpan.end)
               THEN "start" ELSE "end"
             snappedSpan ==
               snapSpanResize(updatedSpan,
                              getSnapPoints(item.id, clipRegions, zoomRegions, tlTotalMs),
                              resizeEdge)
             clampedSpan == clampSpanToBounds(snappedSpan, tlTotalMs)
         IN  /\ ~(clampedSpan.end - clampedSpan.start
                    < Min2(Half(minItemDurationMs),
                           IF tlTotalMs = 0 THEN Half(minItemDurationMs)
                           ELSE Half(tlTotalMs)))
             /\ ~hasOverlap(clampedSpan, item.id, clipRegions, zoomRegions)
             /\ StoreTrack(kind, SpanChanged(TrackOf(kind), item.id, clampedSpan))
             /\ UNCHANGED <<nextZoomIdRef, nextClipIdRef>>

(***************************************************************************)
(* Pointer interpolation: FrameRenderer.interpolateCursorPosition (export) *)
(* and CursorRenderer.interpolatePosition (playback), the same code on the *)
(* normalized tracking data of each.  Timestamps come from                 *)
(* performance.now() and never decrease; the first is 0 after              *)
(* normalization.  Positions are in units of 1/64 pixel; timestamps 0, 4,  *)
(* 8 and whole query times make every quotient and product exact.          *)
(***************************************************************************)
NoPos == [x |-> NotFinite, y |-> NotFinite, isNull |-> TRUE]
Pos(x, y) == [x |-> x, y |-> y, isNull |-> FALSE]

InterpTimestamps == {0, 4, 8}
\* query times: currentTimeMs + timeOffset, which may lie before the recording
InterpTimes == (0 - 2)..9

InterpSessions ==
  UNION {{ [i \in 1..n |-> PtrEvent(ts[i], Px(xs[i]), Px(ys[i]))] :
             ts \in {f \in [1..n -> InterpTimestamps] :
                       (n > 0 => f[1] = 0) /\ \A i \in 1..(n - 1) : f[i] <= f[i + 1]},
             xs \in [1..n -> {0, 8, 16}], ys \in [1..n -> {0, 8}] } : n \in 0..MaxInterpEvents}

\* the loop breaking at the first event with event.timestamp >= timeMs
BreakIndexAtEqual(data, timeMs) ==
  LET later == {i \in 1..Len(data) : ~(data[i].timestamp < timeMs)}
  IN  IF later = {} THEN Len(data) + 1 ELSE CHOOSE i \in later : \A j \in later : i <= j

\* the index at which the for loop breaks: the first event with
\* event.timestamp > timeMs, Len + 1 when the loop runs to the end
BreakIndex(data, timeMs) ==
  LET later == {i \in 1..Len(data) : ~(data[i].timestamp <= timeMs)}
  IN  IF later = {} THEN Len(data) + 1 ELSE CHOOSE i \in later : \A j \in later : i <= j

\* frameRenderer.ts lines 602-633, part_003 lines 455-489
interpolateCursorPosition(data, timeMs) ==
  IF Len(data) = 0 THEN NoPos
  ELSE
    LET k == BreakIndex(data, timeMs)
    IN  IF k = 1 THEN Pos(data[1].x, data[1].y)
        ELSE IF k > Len(data) THEN Pos(data[k - 1].x, data[k - 1].y)
        ELSE LET before == data[k - 1]
                 after == data[k]
                 t == PxDiv(Px(timeMs - before.timestamp),
                            Px(after.timestamp - before.timestamp))
             IN  Pos(IF PxMul(after.x - before.x, t) = NotFinite THEN NotFinite
                     ELSE before.x + PxMul(after.x - before.x, t),
                     IF PxMul(after.y - before.y, t) = NotFinite THEN NotFinite
                     ELSE before.y + PxMul(after.y - before.y, t))

IpIdle == ipData = <<>> /\ ipTimeMs = 0 /\ ipExport = NoPos /\ ipPlayback = NoPos /\ ipDone = {}

IpInit ==
  /\ ipData \in InterpSessions
  /\ ipTimeMs \in InterpTimes
  /\ ipExport = NoPos /\ ipPlayback = NoPos /\ ipDone = {}

\* FrameRenderer.updateCursorForFrame asks for the position of a frame
exportInterpolate ==
  /\ "export" \notin ipDone
  /\ UNCHANGED exceptIp
  /\ ipExport' = interpolateCursorPosition(ipData, ipTimeMs)
  /\ ipDone' = ipDone \cup {"export"}
  /\ UNCHANGED <<ipData, ipTimeMs, ipPlayback>>

\* CursorRenderer.updateForTime asks for the position at the playback time
playbackInterpolate ==
  /\ "playback" \notin ipDone
  /\ UNCHANGED exceptIp
  /\ ipPlayback' = interpolateCursorPosition(ipData, ipTimeMs)
  /\ ipDone' = ipDone \cup {"playback"}
  /\ UNCHANGED <<ipData, ipTimeMs, ipExport>>

(***************************************************************************)
(* Playback of the editor: createVideoEventHandlers (part_013) on the      *)
(* HTMLVideoElement, with play / pause of VideoPlayback.tsx and the seek   *)
(* of the editor.  video.currentTime is a binary64 number of seconds: the  *)
(* model holds the whole number k of milliseconds it was made from,        *)
(* video.currentTime = k / 1000, and computes video.currentTime * 1000 in  *)
(* binary64 where the handlers do.  The element queues its events          *)
(* (mediaEvents, dispatched in order); animation frames run between tasks. *)
(***************************************************************************)
PlayTimes == {0, 500, 700, 1000, 1001, 1500, 1600}

PlayClipLists ==
  { <<>>,
    <<Clip(0, 500), Clip(500, 1000)>>,
    <<Clip(500, 1000), Clip(0, 500)>>,
    <<Clip(0, 500), Clip(1000, 1500)>>,
    <<Clip(0, 500), Clip(1001, 1500)>> }

DInt(n) == DFromRatio(n, 1)

\* video.currentTime * 1000 for video.currentTime = k / 1000
CurrentMsOf == [k \in PlayTimes |-> DMul(DFromRatio(k, 1000), DInt(1000))]

\* sourceTimeMs >= ms and sourceTimeMs <= ms for sourceTimeMs = CurrentMsOf[k]
MsGeq(k, ms) == ~BigLess(CurrentMsOf[k], DInt(ms))
MsLeq(k, ms) == ~BigLess(DInt(ms), CurrentMsOf[k])

\* clipUtils.ts lines 88-90 at the playhead
findClipAtPlayhead(k, clips) ==
  LET hits == {i \in 1..Len(clips) : MsGeq(k, clips[i].startMs) /\ MsLeq(k, clips[i].endMs)}
  IN  IF hits = {} THEN NoClip
      ELSE clips[CHOOSE i \in hits : \A j \in hits : i <= j]

\* clipUtils.ts lines 96-106 at the playhead: NoTime is null
getNextClipStart(k, clips) ==
  LET sorted == sortClips(clips)
      later == {i \in 1..Len(sorted) : ~MsGeq(k, sorted[i].startMs)}
  IN  IF later = {} THEN NoTime
      ELSE sorted[CHOOSE i \in later : \A j \in later : i <= j].startMs

NoEmit == [by |-> "none", time |-> 0]
Emit(by, k) == [by |-> by, time |-> k]

\* video.pause(): the pause event is queued only if the video was playing
AfterPause(q) == IF vPaused THEN q ELSE Append(q, "pause")

PlIdle ==
  /\ plClips = <<>> /\ vCurrentTime = 0 /\ vPaused = TRUE /\ vSeeking = FALSE
  /\ mediaEvents = <<>>
  /\ isSeekingRef = FALSE /\ isPlayingRef = FALSE /\ allowPlaybackRef = FALSE
  /\ isSkippingGap = FALSE /\ timeUpdateAnimationRef = 0
  /\ rafScheduled = {} /\ rafCount = 0 /\ plUserOps = 0
  /\ plEmitted = NoEmit /\ plLoopPausedAt = NoTime

PlInit ==
  /\ plClips \in PlayClipLists
  /\ vCurrentTime = 0 /\ vPaused = TRUE /\ vSeeking = FALSE
  /\ mediaEvents = <<>>
  /\ isSeekingRef = FALSE /\ isPlayingRef = FALSE /\ allowPlaybackRef = FALSE
  /\ isSkippingGap = FALSE /\ timeUpdateAnimationRef = 0
  /\ rafScheduled = {} /\ rafCount = 0 /\ plUserOps = 0
  /\ plEmitted = NoEmit /\ plLoopPausedAt = NoTime

\* timeUpdateAnimationRef.current = requestAnimationFrame(updateTime)
RequestFrame(scheduled) ==
  /\ rafCount' = rafCount + 1
  /\ timeUpdateAnimationRef' = rafCount + 1
  /\ rafScheduled' = scheduled \cup {rafCount + 1}

\* video.currentTime = k / 1000: a seek starts, the seeking event is queued
SeekTo(k, q) ==
  /\ vCurrentTime' = k
  /\ vSeeking' = TRUE
  /\ mediaEvents' = Append(q, "seeking")

\* lines 38-94: an animation frame runs the callback with the oldest handle
updateTime ==
  /\ rafScheduled # {}
  /\ rafCount < MaxFrames
  /\ UNCHANGED exceptPl
  /\ LET h == CHOOSE x \in rafScheduled : \A y \in rafScheduled : x <= y
         left == rafScheduled \ {h}
         clips == plClips
         currentClip == findClipAtPlayhead(vCurrentTime, clips)
         nextClipStart == getNextClipStart(vCurrentTime, clips)
         sorted == sortClips(clips)
         skip == /\ isSkippingGap' = TRUE
                 /\ SeekTo(nextClipStart, mediaEvents)
                 /\ rafScheduled' = left
                 /\ UNCHANGED <<vPaused, timeUpdateAnimationRef, rafCount, plEmitted,
                                plLoopPausedAt>>
     IN  /\ UNCHANGED <<plClips, isSeekingRef, isPlayingRef, allowPlaybackRef, plUserOps>>
         /\ IF Len(clips) > 0 /\ currentClip = NoClip
            THEN IF nextClipStart # NoTime
                 THEN skip
                 ELSE /\ vPaused' = TRUE
                      /\ SeekTo(sorted[Len(sorted)].endMs, AfterPause(mediaEvents))
                      /\ plEmitted' = Emit("updateTime", sorted[Len(sorted)].endMs)
                      /\ plLoopPausedAt' = vCurrentTime
                      /\ rafScheduled' = left
                      /\ UNCHANGED <<isSkippingGap, timeUpdateAnimationRef, rafCount>>
            ELSE IF Len(clips) > 0 /\ MsGeq(vCurrentTime, currentClip.endMs)
                 THEN IF nextClipStart # NoTime
                      THEN skip
                      ELSE /\ vPaused' = TRUE
                           /\ mediaEvents' = AfterPause(mediaEvents)
                           /\ plEmitted' = Emit("updateTime", currentClip.endMs)
                           /\ plLoopPausedAt' = vCurrentTime
                           /\ rafScheduled' = left
                           /\ UNCHANGED <<vCurrentTime, vSeeking, isSkippingGap,
                                          timeUpdateAnimationRef, rafCount>>
                 ELSE /\ plEmitted' = Emit("updateTime", vCurrentTime)
                      /\ IF ~vPaused
                         THEN RequestFrame(left)
                         ELSE /\ rafScheduled' = left
                              /\ UNCHANGED <<timeUpdateAnimationRef, rafCount>>
                      /\ UNCHANGED <<vCurrentTime, vPaused, vSeeking, mediaEvents,
                                     isSkippingGap, plLoopPausedAt>>

\* lines 96-137: the play event
handlePlay ==
  /\ mediaEvents # <<>> /\ Head(mediaEvents) = "play"
  /\ rafCount < MaxFrames
  /\ UNCHANGED exceptPl
  /\ UNCHANGED <<plClips, isSeekingRef, allowPlaybackRef, isSkippingGap, plUserOps,
                 plLoopPausedAt>>
  /\ LET q == Tail(mediaEvents)
         clips == plClips
         nextClipStart == getNextClipStart(vCurrentTime, clips)
         target == IF nextClipStart # NoTime THEN nextClipStart
                   ELSE sortClips(clips)[1].startMs
     IN  IF isSeekingRef \/ ~allowPlaybackRef
         THEN /\ vPaused' = TRUE
              /\ mediaEvents' = AfterPause(q)
              /\ UNCHANGED <<vCurrentTime, vSeeking, isPlayingRef, timeUpdateAnimationRef,
                             rafScheduled, rafCount, plEmitted>>
         ELSE /\ IF Len(clips) > 0 /\ findClipAtPlayhead(vCurrentTime, clips) = NoClip
                 THEN /\ SeekTo(target, q)
                      /\ plEmitted' = Emit("handlePlay", target)
                 ELSE /\ mediaEvents' = q
                      /\ UNCHANGED <<vCurrentTime, vSeeking, plEmitted>>
              /\ isPlayingRef' = TRUE
              /\ RequestFrame(rafScheduled \ {timeUpdateAnimationRef})
              /\ UNCHANGED vPaused

\* lines 139-147: the pause event
handlePause ==
  /\ mediaEvents # <<>> /\ Head(mediaEvents) = "pause"
  /\ UNCHANGED exceptPl
  /\ mediaEvents' = Tail(mediaEvents)
  /\ isPlayingRef' = FALSE
  /\ rafScheduled' = rafScheduled \ {timeUpdateAnimationRef}
  /\ timeUpdateAnimationRef' = 0
  /\ plEmitted' = Emit("handlePause", vCurrentTime)
  /\ UNCHANGED <<plClips, vCurrentTime, vPaused, vSeeking, isSeekingRef, allowPlaybackRef,
                 isSkippingGap, rafCount, plUserOps, plLoopPausedAt>>

\* lines 149-167: the seeked event
handleSeeked ==
  /\ mediaEvents # <<>> /\ Head(mediaEvents) = "seeked"
  /\ rafCount < MaxFrames
  /\ UNCHANGED exceptPl
  /\ isSeekingRef' = FALSE
  /\ UNCHANGED <<plClips, vCurrentTime, vSeeking, isPlayingRef, allowPlaybackRef, plUserOps,
                 plLoopPausedAt>>
  /\ IF isSkippingGap
     THEN /\ isSkippingGap' = FALSE
          /\ plEmitted' = Emit("resume", vCurrentTime)
          /\ mediaEvents' = Tail(mediaEvents)
          /\ IF isPlayingRef /\ ~vPaused
             THEN RequestFrame(rafScheduled)
             ELSE UNCHANGED <<timeUpdateAnimationRef, rafScheduled, rafCount>>
          /\ UNCHANGED vPaused
     ELSE /\ IF ~isPlayingRef /\ ~vPaused
             THEN vPaused' = TRUE /\ mediaEvents' = Append(Tail(mediaEvents), "pause")
             ELSE UNCHANGED vPaused /\ mediaEvents' = Tail(mediaEvents)
          /\ plEmitted' = Emit("handleSeeked", vCurrentTime)
          /\ UNCHANGED <<isSkippingGap, timeUpdateAnimationRef, rafScheduled, rafCount>>

\* lines 169-181: the seeking event
handleSeeking ==
  /\ mediaEvents # <<>> /\ Head(mediaEvents) = "seeking"
  /\ UNCHANGED exceptPl
  /\ isSeekingRef' = TRUE
  /\ UNCHANGED <<plClips, vCurrentTime, vSeeking, isPlayingRef, allowPlaybackRef,
                 isSkippingGap, timeUpdateAnimationRef, rafScheduled, rafCount, plUserOps,
                 plLoopPausedAt>>
  /\ IF isSkippingGap
     THEN /\ mediaEvents' = Tail(mediaEvents)
          /\ UNCHANGED <<vPaused, plEmitted>>
     ELSE /\ IF ~isPlayingRef /\ ~vPaused
             THEN vPaused' = TRUE /\ mediaEvents' = Append(Tail(mediaEvents), "pause")
             ELSE UNCHANGED vPaused /\ mediaEvents' = Tail(mediaEvents)
          /\ plEmitted' = Emit("handleSeeking", vCurrentTime)

\* VideoPlayback.tsx lines 203-218: play() of the imperative handle
userPlay ==
  /\ plUserOps < MaxUserOps
  /\ UNCHANGED exceptPl
  /\ plUserOps' = plUserOps + 1
  /\ allowPlaybackRef' = TRUE
  /\ vPaused' = FALSE
  /\ mediaEvents' = IF vPaused THEN Append(mediaEvents, "play") ELSE mediaEvents
  /\ UNCHANGED <<plClips, vCurrentTime, vSeeking, isSeekingRef, isPlayingRef, isSkippingGap,
                 timeUpdateAnimationRef, rafScheduled, rafCount, plEmitted, plLoopPausedAt>>

\* VideoPlayback.tsx lines 220-227: pause() of the imperative handle
userPause ==
  /\ plUserOps < MaxUserOps
  /\ UNCHANGED exceptPl
  /\ plUserOps' = plUserOps + 1
  /\ allowPlaybackRef' = FALSE
  /\ vPaused' = TRUE
  /\ mediaEvents' = AfterPause(mediaEvents)
  /\ UNCHANGED <<plClips, vCurrentTime, vSeeking, isSeekingRef, isPlayingRef, isSkippingGap,
                 timeUpdateAnimationRef, rafScheduled, rafCount, plEmitted, plLoopPausedAt>>

\* VideoEditor.tsx lines 120-130: the user seeks on the timeline
userSeek ==
  /\ plUserOps < MaxUserOps
  /\ UNCHANGED exceptPl
  /\ plUserOps' = plUserOps + 1
  /\ \E k \in {500, 700} : SeekTo(k, mediaEvents)
  /\ UNCHANGED <<plClips, vPaused, isSeekingRef, isPlayingRef, allowPlaybackRef,
                 isSkippingGap, timeUpdateAnimationRef, rafScheduled, rafCount, plEmitted,
                 plLoopPausedAt>>

\* the element finishes the seek in progress and queues the seeked event
seekCompletes ==
  /\ vSeeking
  /\ UNCHANGED exceptPl
  /\ vSeeking' = FALSE
  /\ mediaEvents' = Append(mediaEvents, "seeked")
  /\ UNCHANGED <<plClips, vCurrentTime, vPaused, isSeekingRef, isPlayingRef,
                 allowPlaybackRef, isSkippingGap, timeUpdateAnimationRef, rafScheduled,
                 rafCount, plUserOps, plEmitted, plLoopPausedAt>>

\* the element plays: the playback position moves on
playbackAdvances ==
  /\ ~vPaused /\ ~vSeeking
  /\ UNCHANGED exceptPl
  /\ \E k \in PlayTimes : k > vCurrentTime /\ vCurrentTime' = k
  /\ UNCHANGED <<plClips, vPaused, vSeeking, mediaEvents, isSeekingRef, isPlayingRef,
                 allowPlaybackRef, isSkippingGap, timeUpdateAnimationRef, rafScheduled,
                 rafCount, plUserOps, plEmitted, plLoopPausedAt>>

(***************************************************************************)
(* Mouse tracking of the main process (electron/ipc/mouseTracking.ts):     *)
(* the module variables, the listeners registered on uIOhook and the       *)
(* native events the hook delivers while it runs.  Every registered        *)
(* listener is called for every native event (an EventEmitter never        *)
(* forgets a listener that is not removed).                                *)
(***************************************************************************)
MOUSE_MOVE_THROTTLE_MS == 16

NoPosition == 0 - 1

MtIdle ==
  /\ isMouseTrackingActive = FALSE /\ isHookStarted = FALSE /\ hookRunning = FALSE
  /\ listenerSets = 0 /\ mouseEventData = <<>> /\ recordingStartTime = 0
  /\ lastMoveTimestamp = 0 /\ initialMousePosition = NoPosition
  /\ mtNow = 0 /\ nativeEvents = 0 /\ mtCalls = 0

\* module load: performance.now() is already past the first throttle window
MtInit ==
  /\ isMouseTrackingActive = FALSE /\ isHookStarted = FALSE /\ hookRunning = FALSE
  /\ listenerSets = 0 /\ mouseEventData = <<>> /\ recordingStartTime = 0
  /\ lastMoveTimestamp = 0 /\ initialMousePosition = NoPosition
  /\ mtNow = 100 /\ nativeEvents = 0 /\ mtCalls = 0

\* lines 39-68; hookStarts is whether uIOhook.start() returns or throws
startMouseTracking ==
  /\ mtCalls < MaxTrackCalls
  /\ UNCHANGED exceptMt
  /\ mtCalls' = mtCalls + 1
  /\ UNCHANGED <<mtNow, nativeEvents>>
  /\ IF isMouseTrackingActive
     THEN UNCHANGED <<isMouseTrackingActive, isHookStarted, hookRunning, listenerSets,
                      mouseEventData, recordingStartTime, lastMoveTimestamp,
                      initialMousePosition>>
     ELSE /\ recordingStartTime' = mtNow
          /\ mouseEventData' = <<>>
          /\ lastMoveTimestamp' = 0
          /\ initialMousePosition' = NoPosition
          /\ IF ~isHookStarted
             THEN /\ listenerSets' = listenerSets + 1
                  /\ \E hookStarts \in BOOLEAN :
                       /\ hookRunning' = hookStarts
                       /\ isHookStarted' = hookStarts
                       /\ isMouseTrackingActive' = hookStarts
             ELSE /\ isMouseTrackingActive' = TRUE
                  /\ UNCHANGED <<isHookStarted, hookRunning, listenerSets>>

\* lines 70-90
stopMouseTracking ==
  /\ mtCalls < MaxTrackCalls
  /\ UNCHANGED exceptMt
  /\ mtCalls' = mtCalls + 1
  /\ isMouseTrackingActive' = FALSE
  /\ UNCHANGED <<isHookStarted, hookRunning, listenerSets, mouseEventData,
                 recordingStartTime, lastMoveTimestamp, initialMousePosition, mtNow,
                 nativeEvents>>

\* lines 195-206
cleanupMouseTracking ==
  /\ mtCalls < MaxTrackCalls
  /\ UNCHANGED exceptMt
  /\ mtCalls' = mtCalls + 1
  /\ IF isHookStarted
     THEN /\ hookRunning' = FALSE
          /\ isHookStarted' = FALSE
          /\ isMouseTrackingActive' = FALSE
          /\ mouseEventData' = <<>>
     ELSE UNCHANGED <<hookRunning, isHookStarted, isMouseTrackingActive, mouseEventData>>
  /\ UNCHANGED <<listenerSets, recordingStartTime, lastMoveTimestamp, initialMousePosition,
                 mtNow, nativeEvents>>

MouseEvent(id, type, timestamp, x) ==
  [id |-> id, type |-> type, timestamp |-> timestamp, x |-> x]

\* the events the mousemove listeners of n registrations push, one after the other
RECURSIVE MovesPushed(_, _, _, _)
MovesPushed(n, last, now, e) ==
  IF n = 0 THEN <<>>
  ELSE IF now - last < MOUSE_MOVE_THROTTLE_MS THEN MovesPushed(n - 1, last, now, e)
       ELSE <<e>> \o MovesPushed(n - 1, now, now, e)

\* the events the mousedown listeners of n registrations push
RECURSIVE DownsPushed(_, _)
DownsPushed(n, e) == IF n = 0 THEN <<>> ELSE <<e>> \o DownsPushed(n - 1, e)

\* lines 92-167: the running hook delivers one native event to every listener
nativeMouseEvent ==
  /\ hookRunning
  /\ nativeEvents < MaxNativeEvents
  /\ UNCHANGED exceptMt
  /\ nativeEvents' = nativeEvents + 1
  /\ UNCHANGED <<isMouseTrackingActive, isHookStarted, hookRunning, listenerSets,
                 recordingStartTime, mtCalls>>
  /\ \E dt \in {8, 16}, type \in {"move", "down"}, x \in {3, 7} :
       LET now == mtNow + dt
           e == MouseEvent(nativeEvents + 1, type, now - recordingStartTime, x)
           pushed == IF type = "move"
                     THEN MovesPushed(listenerSets, lastMoveTimestamp, now, e)
                     ELSE DownsPushed(listenerSets, e)
       IN  /\ mtNow' = now
           /\ IF isMouseTrackingActive
              THEN /\ mouseEventData' = mouseEventData \o pushed
                   /\ lastMoveTimestamp' =
                        IF type = "move" /\ pushed # <<>> THEN now ELSE lastMoveTimestamp
                   /\ initialMousePosition' =
                        IF type = "move" /\ initialMousePosition = NoPosition
                        THEN x ELSE initialMousePosition
              ELSE UNCHANGED <<mouseEventData, lastMoveTimestamp, initialMousePosition>>

(***************************************************************************)
(* Recordings on disk: recorder.onstop of the recorder (part_008) stores   *)
(* recording-<timestamp>.webm and recording-<timestamp>_tracking.json in   *)
(* RECORDINGS_DIR through the handlers of electron/ipc/handlers.ts, and    *)
(* the editor loads the latest file of each kind when it mounts.  A file   *)
(* is [kind, stamp]: its name is made of the timestamp only, and for       *)
(* timestamps of equal length the sort of the names is the sort of the     *)
(* stamps.                                                                 *)
(***************************************************************************)
RecFile(kind, stamp) == [kind |-> kind, stamp |-> stamp]

\* files.filter(endsWith).sort().reverse()[0]: the stamp of the latest file of a kind
LatestOf(kind, files) ==
  LET stamps == {f.stamp : f \in {g \in files : g.kind = kind}}
  IN  IF stamps = {} THEN NoTime
      ELSE CHOOSE s \in stamps : \A t \in stamps : t <= s

RsIdle ==
  /\ recordingsDir = {} /\ dateNow = 0 /\ videoPath = NoTime
  /\ mouseTrackingData = NoTime /\ editorLoads = 0

RsInit ==
  /\ recordingsDir = {} /\ dateNow = 1 /\ videoPath = NoTime
  /\ mouseTrackingData = NoTime /\ editorLoads = 0

\* part_008 lines 225-249 with handlers.ts lines 82-125: events is the number of
\* pointer events of the session, videoStored whether writing the video succeeded
recorderOnStop ==
  /\ dateNow < MaxRecordings
  /\ UNCHANGED exceptRs
  /\ dateNow' = dateNow + 1
  /\ UNCHANGED <<videoPath, mouseTrackingData, editorLoads>>
  /\ \E chunks \in {0, 1}, events \in {0, 2}, videoStored \in BOOLEAN :
       LET timestamp == dateNow
           video == {RecFile("webm", timestamp)}
           tracking == IF events = 0 THEN {} ELSE {RecFile("tracking", timestamp)}
       IN  recordingsDir' =
             IF chunks = 0 \/ ~videoStored THEN recordingsDir
             ELSE recordingsDir \cup video \cup tracking

\* VideoEditor.tsx lines 60-84 with handlers.ts lines 127-172: the editor mounts
loadVideo ==
  /\ editorLoads < MaxRecordings
  /\ UNCHANGED exceptRs
  /\ editorLoads' = editorLoads + 1
  /\ videoPath' = LatestOf("webm", recordingsDir)
  /\ mouseTrackingData' = LatestOf("tracking", recordingsDir)
  /\ UNCHANGED <<recordingsDir, dateNow>>

\* part_007 lines 14-32: files older than a day are deleted when the app quits
cleanupOldRecordings ==
  /\ recordingsDir # {}
  /\ UNCHANGED exceptRs
  /\ \E cutoff \in 1..dateNow :
       recordingsDir' = {f \in recordingsDir : f.stamp >= cutoff}
  /\ recordingsDir' # recordingsDir
  /\ UNCHANGED <<dateNow, videoPath, mouseTrackingData, editorLoads>>

(***************************************************************************)
(* The specifications.                                                     *)
(***************************************************************************)
Init == ExpInit /\ CuIdle /\ GsIdle /\ CamIdle /\ CkIdle /\ PtIdle /\ TlIdle /\ IpIdle /\ PlIdle /\ MtIdle /\ RsIdle
Next ==
  \/ StartExport
  \/ LoadVideoResolve \/ LoadVideoReject
  \/ RendererInitResolve \/ RendererInitReject \/ EncoderConfigureThrows
  \/ MuxerInitResolve \/ MuxerInitReject
  \/ PreloadSeeked
  \/ LoopTop
  \/ SeekSettled \/ SeekTimeout
  \/ MakeFrame \/ MakeFrameThrows
  \/ RenderResolve \/ RenderReject
  \/ BpCheck \/ BpWake
  \/ Submit \/ SubmitThrows
  \/ AfterLoop
  \/ FlushResolve \/ FlushReject
  \/ Mux \/ MuxThrows
  \/ Cancel
  \/ EncoderOutput
  \/ EncoderError
Spec == Init /\ [][Next]_vars

InitClip == ExpIdle /\ CuInit /\ GsIdle /\ CamIdle /\ CkIdle /\ PtIdle /\ TlIdle /\ IpIdle /\ PlIdle /\ MtIdle /\ RsIdle
NextClip == CuSourceToOutput \/ CuOutputToSource \/ CuFindClip
SpecClip == InitClip /\ [][NextClip]_vars

InitSched == ExpIdle /\ CuIdle /\ GsInit /\ CamIdle /\ CkIdle /\ PtIdle /\ TlIdle /\ IpIdle /\ PlIdle /\ MtIdle /\ RsIdle
NextSched == GsStart \/ GsPush \/ GsNextClip
SpecSched == InitSched /\ [][NextSched]_vars

InitCam == ExpIdle /\ CuIdle /\ GsIdle /\ CamInit /\ CkIdle /\ PtIdle /\ TlIdle /\ IpIdle /\ PlIdle /\ MtIdle /\ RsIdle
NextCam == updateAnimationState
SpecCam == InitCam /\ [][NextCam]_vars

InitClick == ExpIdle /\ CuIdle /\ GsIdle /\ CamIdle /\ CkInit /\ PtIdle /\ TlIdle /\ IpIdle /\ PlIdle /\ MtIdle /\ RsIdle
NextClick == checkClickEvents \/ checkForClicks
SpecClick == InitClick /\ [][NextClick]_vars

InitPtr == ExpIdle /\ CuIdle /\ GsIdle /\ CamIdle /\ CkIdle /\ PtInit /\ TlIdle /\ IpIdle /\ PlIdle /\ MtIdle /\ RsIdle
NextPtr == normalizeTrackingData \/ setTrackingData
SpecPtr == InitPtr /\ [][NextPtr]_vars

InitTimeline == ExpIdle /\ CuIdle /\ GsIdle /\ CamIdle /\ CkIdle /\ PtIdle /\ TlInit /\ IpIdle /\ PlIdle /\ MtIdle /\ RsIdle
NextTimeline == handleAdd \/ onDragEnd \/ onResizeEnd
SpecTimeline == InitTimeline /\ [][NextTimeline]_vars

InitInterp == ExpIdle /\ CuIdle /\ GsIdle /\ CamIdle /\ CkIdle /\ PtIdle /\ TlIdle /\ IpInit /\ PlIdle /\ MtIdle /\ RsIdle
NextInterp == exportInterpolate \/ playbackInterpolate
SpecInterp == InitInterp /\ [][NextInterp]_vars

InitPlay == ExpIdle /\ CuIdle /\ GsIdle /\ CamIdle /\ CkIdle /\ PtIdle /\ TlIdle /\ IpIdle /\ PlInit /\ MtIdle /\ RsIdle
NextPlay == updateTime \/ handlePlay \/ handlePause \/ handleSeeked \/ handleSeeking \/ userPlay \/ userPause \/ userSeek \/ seekCompletes \/ playbackAdvances
SpecPlay == InitPlay /\ [][NextPlay]_vars

InitTrack == ExpIdle /\ CuIdle /\ GsIdle /\ CamIdle /\ CkIdle /\ PtIdle /\ TlIdle /\ IpIdle /\ PlIdle /\ MtInit /\ RsIdle
NextTrack == startMouseTracking \/ stopMouseTracking \/ cleanupMouseTracking \/ nativeMouseEvent
SpecTrack == InitTrack /\ [][NextTrack]_vars

InitStore == ExpIdle /\ CuIdle /\ GsIdle /\ CamIdle /\ CkIdle /\ PtIdle /\ TlIdle /\ IpIdle /\ PlIdle /\ MtIdle /\ RsInit
NextStore == recorderOnStop \/ loadVideo \/ cleanupOldRecordings
SpecStore == InitStore /\ [][NextStore]_vars

(***************************************************************************)
(* Properties.                                                             *)
(***************************************************************************)

\* C1: a cancel() during an export makes that export resolve with the
\* cancelled outcome {success: false, error: 'Export cancelled'}.
C1_CancelYieldsCancelled ==
  (pc = "done" /\ hist.cancelCalled) => result = Cancelled

\* C2: the in-flight counter encodeQueue, and the number of frames the
\* encoder holds without having emitted their chunk, never exceed the cap.
C2_QueueWithinCap ==
  /\ encodeQueue <= MAX_ENCODE_QUEUE
  /\ Len(encPending) <= MAX_ENCODE_QUEUE

\* the cap is reached and the export waits for the encoder
C2_Witness ==
  /\ pc = "bpWait"
  /\ encodeQueue = MAX_ENCODE_QUEUE
  /\ Len(encPending) = MAX_ENCODE_QUEUE

InSomeClip(t, clips) ==
  \E i \in 1..Len(clips) : clips[i].startMs <= t /\ t <= clips[i].endMs

InClipHalfOpen(t, clips) ==
  \E i \in 1..Len(clips) : clips[i].startMs <= t /\ t < clips[i].endMs

IsLastEnd(t, clips) ==
  \E i \in 1..Len(clips) :
    /\ t = clips[i].endMs
    /\ \A j \in 1..Len(clips) : clips[j].endMs <= clips[i].endMs

\* C3 as stated: for every source time inside some clip, both ends included,
\* mapping to output time and back returns the source time.
C3_RoundTripClosed ==
  (cuPc = "back" /\ Len(cuClips) > 0 /\ InSomeClip(cuSrc, cuClips)) => cuBack = cuSrc

\* C3 amended: the round trip returns the source time for every source time
\* with startMs <= srcMs < endMs for some clip, and for the end of the last clip.
C3_RoundTripHalfOpen ==
  (/\ cuPc = "back"
   /\ Len(cuClips) > 0
   /\ InClipHalfOpen(cuSrc, cuClips) \/ IsLastEnd(cuSrc, cuClips))
  => cuBack = cuSrc

\* a round trip through the second of two clips separated by a gap
C3_Witness ==
  /\ cuPc = "back"
  /\ Len(cuClips) = 2
  /\ cuClips[1].endMs < cuClips[2].startMs
  /\ cuClips[2].startMs <= cuSrc /\ cuSrc <= cuClips[2].endMs
  /\ cuOut = (cuClips[1].endMs - cuClips[1].startMs) + (cuSrc - cuClips[2].startMs)
  /\ cuBack = cuSrc

\* C4: after the encoder has reported an error during an export, export()
\* does not resolve with success = true.
C4_EncoderFailureFailsExport ==
  (pc = "done" /\ hist.encoderFailed) => ~result.success

\* C5: the step that raises the cancellation flag during an export leaves the
\* decoder, compositor, encoder, muxer and in-flight counter as they were.
C5_CancelLeavesPipelineUntouched ==
  [][(InProgress /\ ~cancelled /\ cancelled')
       => UNCHANGED <<decoder, renderer, encoder, muxer, res, encodeQueue>>]_vars

\* C6: when export() has delivered its result, on every exit path, all four
\* references are dropped, decoder and compositor are destroyed and no
\* configured encoder is left open.
C6_AllReleasedOnExit ==
  pc = "done" =>
    /\ decoder = NULL /\ renderer = NULL /\ encoder = NULL /\ muxer = NULL
    /\ res.decoder # "open"
    /\ res.renderer # "open"
    /\ res.encoder # "configured"

\* a failure in the middle of the frame loop, with every resource created
C6_Witness ==
  /\ pc = "done"
  /\ result = Failure("RendererError")
  /\ frameIndex > 0
  /\ hist.encoderCreated /\ hist.muxerCreated
  /\ res = [decoder |-> "destroyed", renderer |-> "destroyed", encoder |-> "closed"]

\* C7: whenever export() waits for a seek to settle, the pre-load seek
\* included, a timeout is armed that ends the wait.
C7_SeekWaitsHaveTimeout ==
  pc \in {"preloadWait", "seekWait"} => "seek" \in timers

\* C8: with an empty frame schedule no encoder and no muxer is created and
\* the export does not succeed.
C8_EmptyScheduleFailsFast ==
  (hist.scheduled /\ totalFrames = 0) =>
    /\ ~hist.encoderCreated
    /\ ~hist.muxerCreated
    /\ (pc = "done" => ~result.success)

\* C9: once cancel() has been called during an export, the muxer is not
\* finalized for that export and the delivered result carries no blob.
C9_NoFinalizeAfterCancel ==
  hist.cancelCalled =>
    /\ ~hist.finalized
    /\ (pc = "done" => ~result.blob)

\* an export cancelled in the frame loop, after the muxer was created
C9_Witness ==
  /\ pc = "done"
  /\ hist.cancelCalled
  /\ hist.muxerCreated
  /\ frameIndex > 0
  /\ result = Cancelled

\* C10: for the clips [{0,3000},{5000,8000}] at 30 fps the schedule has
\* exactly 180 samples, 90 from each clip, none strictly between 3000 ms and
\* 5000 ms.
C10_ScheduleExact ==
  (gsPc = "done" /\ gsClips = ClaimClips /\ gsRate = 30) =>
    /\ Len(gsFrameTimes) = 180
    /\ Cardinality({k \in 1..Len(gsFrameTimes) : FLess(gsFrameTimes[k], FromInt(3000))}) = 90
    /\ Cardinality({k \in 1..Len(gsFrameTimes) : ~FLess(gsFrameTimes[k], FromInt(5000))}) = 90
    /\ \A k \in 1..Len(gsFrameTimes) :
         ~(FLess(FromInt(3000), gsFrameTimes[k]) /\ FLess(gsFrameTimes[k], FromInt(5000)))

\* C11 as stated: for the clips [{0,3000},{5000,8000}] at 30 fps the sample
\* with index 89 has source time 2970 ms and the sample with index 90 has
\* source time 5000 ms (indices from 0).
C11_Sample89At2970 ==
  (gsPc = "done" /\ gsClips = ClaimClips /\ gsRate = 30) =>
    /\ gsFrameTimes[90] = FromInt(2970)
    /\ gsFrameTimes[91] = FromInt(5000)

\* C11 amended: the sample with index 89 has source time 89 x (1000/30) ms up
\* to rounding, between 2966.6 ms and 2966.7 ms, and is the last one before
\* 3000 ms; the sample with index 90 has source time exactly 5000 ms.
C11_Sample89At2966 ==
  (gsPc = "done" /\ gsClips = ClaimClips /\ gsRate = 30) =>
    /\ FLess(FDivInt(29666, 10), gsFrameTimes[90])
    /\ FLess(gsFrameTimes[90], FDivInt(29667, 10))
    /\ gsFrameTimes[91] = FromInt(5000)

\* the schedule of the two clips at 30 fps is complete
C11_Witness ==
  /\ gsPc = "done" /\ gsClips = ClaimClips /\ gsRate = 30
  /\ Len(gsFrameTimes) > 91
  /\ FLess(gsFrameTimes[90], FromInt(3000))


\* an export suspended at an await is resumed by its promise or timer: the
\* promises of the decoder, renderer and muxer settle, the per-frame seek has
\* its timeout, flush() settles when the queue is empty or the encoder closed;
\* the backpressure loop goes on only when the counter is below the cap
CanResume ==
  /\ pc = "bpWait" =>
        \/ ~MustWait(encodeQueue, cancelled)
        \/ encoder # NULL /\ res.encoder = "configured" /\ encPending # <<>>
  /\ pc = "flushing" =>
        \/ res.encoder = "closed"
        \/ encoder # NULL /\ res.encoder = "configured"

\* C12: every export() ends with a returned result that is one of completed,
\* cancelled or failed: a delivered result has one of the three shapes, and
\* an export in progress is never left waiting for something that cannot
\* happen without the caller's cancel().
C12_ExportEndsWithOutcome ==
  /\ pc = "done" =>
        \/ result = Success
        \/ result = Cancelled
        \/ ~result.success /\ ~result.blob /\ result.error \notin {NULL, "Export cancelled"}
  /\ InProgress => CanResume

\* C13: the progress events of an export carry currentFrame = 1, 2, 3, ...,
\* each one more than the one before, all with the totalFrames fixed when the
\* schedule was built; the last event of a successful export has
\* currentFrame = totalFrames.
C13_ProgressCounts ==
  [][/\ (progress' # progress /\ progress' # NoProgress) =>
          /\ progress'.currentFrame = progress.currentFrame + 1
          /\ progress # NoProgress => progress'.totalFrames = progress.totalFrames
          /\ progress'.totalFrames = Len(frameTimes)
          /\ hist.scheduled /\ frameTimes' = frameTimes
     /\ (pc' = "done" /\ result' = Success /\ progress' # NoProgress) =>
          progress'.currentFrame = progress'.totalFrames]_vars

\* a successful export of a schedule longer than the encoder queue, whose last
\* progress event reports the last frame
C13_Witness ==
  /\ pc = "done" /\ result = Success
  /\ totalFrames > MAX_ENCODE_QUEUE
  /\ progress = [currentFrame |-> totalFrames, totalFrames |-> totalFrames]

RECURSIVE GCD(_, _)
GCD(a, b) == IF b = 0 THEN a ELSE GCD(b, a % b)

\* the frames handed to the encoder during the running export, oldest first:
\* those already emitted as chunks, then those still in flight
Submitted == encodedChunks \o encPending

\* k * 1,000,000 / frameRate microseconds, correctly rounded
ExactTimestamp(k, frameRate) ==
  LET g == GCD(1000000, frameRate)
  IN  FDivInt(k * (1000000 \div g), frameRate \div g)

\* 2^-30 microseconds: two units in the last place of a timestamp below 2^22
TimestampTolerance == <<0, 0, 2^18>>

\* C14: the frame at schedule position k is handed to the encoder with the
\* output timestamp k x (1,000,000 / frameRate) microseconds (up to the
\* rounding of the product); the frames handed over are the positions
\* 0, 1, 2, ... without a gap, so the timestamps rise by one frame duration
\* per frame whatever the source times are.
C14_TimestampsContinuous ==
  (InProgress /\ encoder # NULL /\ res.encoder = "configured") =>
    \A i \in 1..Len(Submitted) :
      /\ Submitted[i].index = i - 1
      /\ ~FLess(TimestampTolerance,
                FSubAbs(Submitted[i].timestamp, ExactTimestamp(i - 1, config.frameRate)))
      /\ i > 1 => FLess(Submitted[i - 1].timestamp, Submitted[i].timestamp)

\* the first frame after the gap between the clips [0,100] and [200,300]:
\* source time 200 ms, output timestamp 3 frame durations = 100,000 microseconds
C14_Witness ==
  /\ InProgress /\ encoder # NULL /\ res.encoder = "configured"
  /\ Len(config.clipRegions) = 2
  /\ Len(Submitted) > 4
  /\ frameTimes[3] = FDivInt(2000, 30) /\ frameTimes[4] = FromInt(200)
  /\ Submitted[4] = [index |-> 3, timestamp |-> FromInt(100000)]

\* C15: a cancel() called after export() delivered its result changes neither
\* that result nor anything else a caller can see, and an export() started
\* afterwards on the same exporter is not cancelled by it: unless cancel() is
\* called again during that export, it does not end with the cancelled outcome.
C15_LateCancelHasNoEffect ==
  [][/\ (pc = "done" /\ pc' = "done" /\ hist'.lateCancel /\ ~hist.lateCancel) =>
          UNCHANGED <<result, progress, decoder, renderer, encoder, muxer, res,
                      encodedChunks, encodeQueue, encPending, timers, frameIndex>>
     /\ (pc' = "done" /\ hist'.lateCancel /\ ~hist'.cancelCalled) =>
          result' # Cancelled]_vars

\* a second export on an exporter that was cancelled after its first result,
\* run to success
C15_Witness ==
  /\ pc = "done"
  /\ hist.exports = 2 /\ hist.lateCancel /\ ~hist.cancelCalled
  /\ totalFrames > 0
  /\ result = Success

\* the source time is the end of one clip and the start of another
OnSharedBoundary(t, clips) ==
  \E i \in 1..Len(clips) : \E j \in 1..Len(clips) :
    i # j /\ clips[i].endMs = t /\ clips[j].startMs = t

\* C19: for a source time on the shared boundary of two abutting clips the
\* lookup returns the first match in startMs-sorted order, whatever the order
\* of the list it is given.
C19_BoundaryLookupOrderFree ==
  (cuPc = "found" /\ OnSharedBoundary(cuSrc, cuClips)) =>
    cuFound = findClipAtSourceTime(cuSrc, sortClips(cuClips))

\* C16: from the identity state, with one zoom region dominant at strength 1
\* on every tick, after 2 seconds of ticks (one tick per rendered frame) the
\* smoothed scale is exactly the scale of the region's depth, and stays so.
C16_ScaleConvergedAfterTwoSeconds ==
  camTicks >= 2 * camRate => camScale = ZOOM_DEPTH_SCALES[camDepth]

\* every call after the first reported exactly the down/click events with a
\* timestamp in (time of the previous call, time of this call]
ReportsWindows(log) ==
  \A k \in 2..Len(log) : log[k].reported = ClicksIn(ckEvents, log[k - 1].time, log[k].time)

\* C17: called with never-decreasing times and no reset, click detection
\* reports in each call exactly the down/click events with a timestamp in
\* (previous call time, current call time], in the exporter (with a click
\* effect configured) and in the playback cursor renderer.
C17_ReportsExactlyTheWindow ==
  /\ ckEffect # "none" => ReportsWindows(ckExLog)
  /\ ReportsWindows(ckPbLog)

\* C18: in the export the click effect of a down/click event is drawn on
\* every rendered frame whose time is within the 400 ms after the event's
\* timestamp.
C18_EffectDrawnForWholeDuration ==
  ckEffect # "none" =>
    \A k \in 1..Len(ckExLog) : \A i \in 1..Len(ckEvents) :
      (/\ IsClick(ckEvents[i])
       /\ ckEvents[i].timestamp <= ckExLog[k].time
       /\ ckExLog[k].time - ckEvents[i].timestamp < CLICK_EFFECT_DURATION)
      => i \in ckExLog[k].drawn

\* C20: for the same events, source bounds, device pixel ratio and video
\* size the exporter's normalization and the playback renderer's yield the
\* same video-pixel coordinates, with bounds of a display, with bounds of a
\* window, and without usable bounds.
C20_ExportMatchesPlayback ==
  ptDone = {"export", "playback"} =>
    /\ Len(normalizedTrackingData) = Len(trackingData)
    /\ \A i \in 1..Len(trackingData) :
         /\ normalizedTrackingData[i].x = trackingData[i].x
         /\ normalizedTrackingData[i].y = trackingData[i].y

\* C21: when the source bounds are missing or have zero width or height, the
\* exporter's pointer normalization produces one event per recorded event, each
\* with finite coordinates given by the bounding-box heuristic: the smallest
\* recorded position maps to 0 and the recorded range is stretched over the
\* video (a range of zero maps every event to 0).
HeuristicCoordinate(v, vs, size) ==
  LET range == MaxOf(vs) - MinOf(vs)
  IN  IF range = 0 THEN 0 ELSE (Px(v - MinOf(vs)) * size) \div range

C21_NoBoundsTakesHeuristic ==
  ("export" \in ptDone /\ ~HasBounds(ptBounds)) =>
     /\ Len(normalizedTrackingData) = Len(ptData)
     /\ \A i \in 1..Len(ptData) :
          /\ normalizedTrackingData[i].x # NotFinite
          /\ normalizedTrackingData[i].y # NotFinite
          /\ normalizedTrackingData[i].x =
               HeuristicCoordinate(ptData[i].x, XsOf(ptData), ptVideo.width)
          /\ normalizedTrackingData[i].y =
               HeuristicCoordinate(ptData[i].y, YsOf(ptData), ptVideo.height)

\* two events that share their x, normalized under bounds of zero height
C21_Witness ==
  /\ "export" \in ptDone
  /\ ptBounds.width > 0 /\ ptBounds.height = 0
  /\ Len(ptData) = 2
  /\ ptData[1].x = ptData[2].x /\ ptData[1].y # ptData[2].y
  /\ normalizedTrackingData[1].x = 0 /\ normalizedTrackingData[2].x = 0

\* C22: on the zoom track and on the clip track, after any sequence of add,
\* drag and resize operations starting from a track without overlaps, every
\* region has startMs < endMs and no two regions of the track overlap.
TrackWellFormed(regions) ==
  /\ \A i \in 1..Len(regions) : regions[i].startMs < regions[i].endMs
  /\ \A i, j \in 1..Len(regions) :
       i # j => \/ regions[i].endMs <= regions[j].startMs
                \/ regions[j].endMs <= regions[i].startMs

OnSegment(p, e1, e2, t) ==
  /\ e1.timestamp <= t /\ t < e2.timestamp
  /\ p.x # NotFinite /\ p.y # NotFinite
  /\ (p.x - e1.x) * (e2.timestamp - e1.timestamp) = (e2.x - e1.x) * (t - e1.timestamp)
  /\ (p.y - e1.y) * (e2.timestamp - e1.timestamp) = (e2.y - e1.y) * (t - e1.timestamp)

InterpolatedRight(p, data, t) ==
  IF Len(data) = 0 THEN p.isNull
  ELSE /\ ~p.isNull
       /\ IF t < data[1].timestamp THEN p = Pos(data[1].x, data[1].y)
          ELSE IF t >= data[Len(data)].timestamp
               THEN p = Pos(data[Len(data)].x, data[Len(data)].y)
               ELSE \E i \in 1..(Len(data) - 1) : OnSegment(p, data[i], data[i + 1], t)

C23_InterpolationBracketed ==
  /\ "export" \in ipDone => InterpolatedRight(ipExport, ipData, ipTimeMs)
  /\ "playback" \in ipDone => InterpolatedRight(ipPlayback, ipData, ipTimeMs)

\* a position asked for strictly between two events that differ in x, after
\* two events that share a timestamp
C23_Witness ==
  /\ ipDone = {"export", "playback"}
  /\ Len(ipData) = 3
  /\ ipData[1].timestamp = ipData[2].timestamp
  /\ ipData[2].timestamp < ipTimeMs /\ ipTimeMs < ipData[3].timestamp
  /\ ipData[2].x < ipExport.x /\ ipExport.x < ipData[3].x
  /\ ipPlayback = ipExport

\* C24: for a screen recording whose source bounds are
\* {0, 0, videoWidth * dpr, videoHeight * dpr}, dpr being the pixel ratio in
\* use, the exporter and the playback cursor both normalize a pointer event
\* at the origin of the bounds to video pixel (0, 0).
IdentityBounds ==
  /\ ~ptBounds.isWindowRecording
  /\ ptBounds.x = 0 /\ ptBounds.y = 0
  /\ ptBounds.width = ptVideo.width * DprOf(ptDevicePixelRatio)
  /\ ptBounds.height = ptVideo.height * DprOf(ptDevicePixelRatio)

OriginToOrigin(normalized) ==
  \A i \in 1..Len(ptData) :
    (ptData[i].x = ptBounds.x /\ ptData[i].y = ptBounds.y)
      => (normalized[i].x = 0 /\ normalized[i].y = 0)

C24_OriginMapsToOrigin ==
  IdentityBounds =>
    /\ "export" \in ptDone => OriginToOrigin(normalizedTrackingData)
    /\ "playback" \in ptDone => OriginToOrigin(trackingData)

\* at ratio 2: an event at the origin and one away from it, both normalized
C24_Witness ==
  /\ IdentityBounds /\ DprOf(ptDevicePixelRatio) = 2
  /\ ptDone = {"export", "playback"}
  /\ Len(ptData) = 2
  /\ ptData[1].x = 0 /\ ptData[1].y = 0 /\ ptData[2].x = 8
  /\ normalizedTrackingData[1].x = 0 /\ normalizedTrackingData[1].y = 0
  /\ normalizedTrackingData[2].x = Px(8) /\ trackingData[2].x = Px(8)
  /\ trackingData[1].x = 0 /\ trackingData[1].y = 0

LastClipEnd(clips) == sortClips(clips)[Len(clips)].endMs

(***************************************************************************)
(* C25: during playback with a non-empty clip set, the update loop pauses  *)
(* playback only when the playhead has reached the end of the last clip in *)
(* sorted order, so a clip that contains or follows the playhead is played *)
(* (the playhead on the boundary of two abutting clips included).          *)
(* plLoopPausedAt is the playhead at which updateTime last called          *)
(* video.pause().                                                          *)
(***************************************************************************)
C25_LoopPausesOnlyAtEnd ==
  (Len(plClips) > 0 /\ plLoopPausedAt # NoTime)
    => MsGeq(plLoopPausedAt, LastClipEnd(plClips))

\* the loop has paused at the end of the last clip
C25_PausedAtEnd ==
  /\ Len(plClips) > 0 /\ plLoopPausedAt # NoTime
  /\ MsGeq(plLoopPausedAt, LastClipEnd(plClips))

(***************************************************************************)
(* C26: with a non-empty clip set, every time the playback update loop     *)
(* emits to the editor (from updateTime, or from handleSeeked when it      *)
(* resumes the loop after a gap skip) lies inside some clip; a gap time is *)
(* never emitted.                                                          *)
(***************************************************************************)
C26_LoopEmitsInsideClips ==
  (Len(plClips) > 0 /\ plEmitted.by \in {"updateTime", "resume"})
    => findClipAtPlayhead(plEmitted.time, plClips) # NoClip

\* the loop resumed after skipping the gap to the clip that starts at 1001 ms
C26_ResumedAtClipStart ==
  /\ plClips = <<Clip(0, 500), Clip(1001, 1500)>>
  /\ plEmitted = Emit("resume", 1001)
  /\ plUserOps = 1

(***************************************************************************)
(* C27: under any interleaving of the play, pause, seeking and seeked      *)
(* events with the seeks of the gap skip, at most one callback of the      *)
(* update loop is scheduled at any time.                                   *)
(***************************************************************************)
C27_OneCallbackScheduled == Cardinality(rafScheduled) <= 1

\* the loop is running: one callback is scheduled
C27_LoopRunning == Cardinality(rafScheduled) = 1 /\ isPlayingRef

(***************************************************************************)
(* C28: across any sequence of start, stop and cleanup calls of the mouse  *)
(* tracking (a start whose native hook fails to start included), each      *)
(* native pointer event is appended to the event buffer at most once.      *)
(***************************************************************************)
C28_EventsAppendedOnce ==
  \A i, j \in DOMAIN mouseEventData :
    i # j => mouseEventData[i].id # mouseEventData[j].id

\* a session after a cleanup has recorded an event
C28_RecordedAfterCleanup ==
  /\ listenerSets = 2 /\ isMouseTrackingActive /\ mouseEventData # <<>>

(***************************************************************************)
(* C29: after any sequence of recordings, the pointer-tracking data the    *)
(* editor loads belongs to the same recording as the video it loads, and a *)
(* recording stored without a tracking file is loaded with no tracking     *)
(* data.                                                                   *)
(***************************************************************************)
C29_TrackingOfLoadedVideo ==
  (editorLoads > 0 /\ videoPath # NoTime)
    => mouseTrackingData \in {NoTime, videoPath}

\* the editor has loaded a recording together with its own tracking data
C29_LoadedWithOwnTracking ==
  editorLoads > 0 /\ videoPath = 2 /\ mouseTrackingData = 2

(***************************************************************************)
(* C30: for every clip list, the empty list included, isInGap(srcMs,       *)
(* clips) is true exactly when sourceTimeToOutputTime(srcMs, clips)        *)
(* returns no value.                                                       *)
(***************************************************************************)
C30_GapIffNoOutputTime ==
  cuPc = "mapped" => (isInGap(cuSrc, cuClips) <=> cuOut = NoTime)

\* the same equivalence for the non-empty clip lists only
C30_GapIffNoOutputTimeNonEmpty ==
  (cuPc = "mapped" /\ Len(cuClips) > 0) => (isInGap(cuSrc, cuClips) <=> cuOut = NoTime)

====
